---------------------------- MODULE Spec2Model ----------------------------
(***************************************************************************)
(* Model of JobGenerator (src/generateur.py): the line reader, the line    *)
(* classifier, the emission templates, the uniq and for-block scanners and *)
(* the generer / _generer_avec_encodage drivers; and of the routing        *)
(* function determiner_dossier_serveur.                                    *)
(*                                                                         *)
(* A source line is a sequence of one-character strings, so that the       *)
(* code's index, slice, split and substring tests are computed as Python   *)
(* computes them.  An output line is a sequence of string fragments whose  *)
(* concatenation is the text written: literal template text is one         *)
(* fragment, a formatted integer is one fragment (ToString), and copied    *)
(* source text is its characters.                                          *)
(***************************************************************************)
EXTENDS Integers, Sequences, FiniteSets, TLC

(***************************************************************************)
(* Bounds of the model.                                                    *)
(***************************************************************************)
MaxBody == 3
MaxBodyRerun == 1
MaxRuns == 2
MaxBodyExec == 3

(***************************************************************************)
(* Python str helpers, on sequences of characters.                         *)
(***************************************************************************)
Whitespace == {" ", "\t"}

RECURSIVE LStrip(_)
LStrip(s) == IF s # <<>> /\ Head(s) \in Whitespace THEN LStrip(Tail(s)) ELSE s

RECURSIVE RStrip(_)
RStrip(s) ==
    IF s # <<>> /\ s[Len(s)] \in Whitespace
    THEN RStrip(SubSeq(s, 1, Len(s) - 1))
    ELSE s

Strip(s) == RStrip(LStrip(s))

UpperToLower ==
    [c \in {"A","B","C","D","E","F","G","H","I","J","K","L","M","N","O","P",
            "Q","R","S","T","U","V","W","X","Y","Z"} |->
        CASE c = "A" -> "a" [] c = "B" -> "b" [] c = "C" -> "c" [] c = "D" -> "d"
          [] c = "E" -> "e" [] c = "F" -> "f" [] c = "G" -> "g" [] c = "H" -> "h"
          [] c = "I" -> "i" [] c = "J" -> "j" [] c = "K" -> "k" [] c = "L" -> "l"
          [] c = "M" -> "m" [] c = "N" -> "n" [] c = "O" -> "o" [] c = "P" -> "p"
          [] c = "Q" -> "q" [] c = "R" -> "r" [] c = "S" -> "s" [] c = "T" -> "t"
          [] c = "U" -> "u" [] c = "V" -> "v" [] c = "W" -> "w" [] c = "X" -> "x"
          [] c = "Y" -> "y" [] c = "Z" -> "z"]

Lower(s) == [i \in 1..Len(s) |-> IF s[i] \in DOMAIN UpperToLower THEN UpperToLower[s[i]] ELSE s[i]]

\* sub in s
Contains(s, sub) ==
    \E i \in 1..(Len(s) - Len(sub) + 1) : SubSeq(s, i, i + Len(sub) - 1) = sub

\* s.startswith(p)
StartsWith(s, p) == Len(s) >= Len(p) /\ SubSeq(s, 1, Len(p)) = p

\* s.count(c) for a one-character c
Count(s, c) == Cardinality({i \in 1..Len(s) : s[i] = c})

\* s[a:b] with 0 <= a <= b (Python slice, 0-based, b excluded, clipped)
Slice(s, a, b) == SubSeq(s, a + 1, IF b > Len(s) THEN Len(s) ELSE b)

\* s.split(c) for a one-character c
RECURSIVE Split(_, _)
Split(s, c) ==
    IF \A i \in 1..Len(s) : s[i] # c
    THEN <<s>>
    ELSE LET k == CHOOSE i \in 1..Len(s) : s[i] = c /\ \A j \in 1..(i - 1) : s[j] # c
         IN  <<SubSeq(s, 1, k - 1)>> \o Split(SubSeq(s, k + 1, Len(s)), c)


\* s.split() : split on runs of whitespace, no empty field
RECURSIVE SplitWs(_)
SplitWs(s) ==
    LET t == LStrip(s)
    IN  IF t = <<>>
        THEN <<>>
        ELSE IF \A i \in 1..Len(t) : t[i] \notin Whitespace
             THEN <<t>>
             ELSE LET k == CHOOSE i \in 1..Len(t) :
                               t[i] \in Whitespace /\ \A j \in 1..(i - 1) : t[j] \notin Whitespace
                  IN  <<SubSeq(t, 1, k - 1)>> \o SplitWs(SubSeq(t, k + 1, Len(t)))

\* Python's None, as a value no line can equal (a line holds single characters)
None == <<"None">>

(***************************************************************************)
(* Class constants of JobGenerator.                                        *)
(***************************************************************************)
LIGNE_REM_1 == "rem ######################################################################"
LIGNE_REM_2 == "rem #---------------------------------------------------------------------"
LIGNE_REM_3 == "rem #--              "
LIGNE_REM_4 == "rem ##################################################"
LIGNE_SET_1 == "set NOMTRAIT="
LIGNE_INF_1 == "%PERL% %PF_SKL_PROC%\\skl_infojob.pl \"%PHASE%\" \"%NOMTRAIT%\""
\* LIGNE_ERR_1 ends with a newline in the source: the line, without it
LIGNE_ERR_1 == "if %errorlevel% NEQ 0 set ERR=Erreur execution %NOMTRAIT% & goto ERREUR"
LIGNE_ERR_2 == "if %errorlevel% GTR 1 set ERR=Erreur execution %NOMTRAIT% & goto ERREUR"
SEND_MAIL == "call %PF_SCRIPT%\\sendMail.cmd %num_phase% %nom_job%"
LIGNE_COPY_1 == "rem --------------------------------------------------"
LIGNE_COPY_2 == "rem Parametres de"

CMDS_NBERR ==
    { <<"s","o","r","t">>, <<"l","s">>, <<"w","c">>, <<"k","e","y","b","u","i","l","d">>,
      <<"d","b","c","h","e","c","k">>, <<"d","c","h","a","i","n">>,
      <<"e","x","p","o","r","t">>, <<"p","e","x","p","o","r","t">>, <<"m","a","i","l">>,
      <<"c","a","t">>, <<"u","n","i","q">>, <<"g","r","e","p">>, <<"j","o","i","n">>,
      <<"s","e","d">>, <<"g","a","w","k">>, <<"7","z","i","p">> }

CMDS_RELANCE ==
    { <<"d","b","c","h","e","c","k">>, <<"d","c","h","a","i","n">>,
      <<"k","e","y","b","u","i","l","d">>, <<"p","e","x","p","o","r","t">> }

CMDS_SIMPLES ==
    { <<"i","f">>, <<":">>, <<"g","o","t","o">>, <<"s","e","t">>, <<"t","y","p","e">>,
      <<"m","k","d","i","r">>, <<"r","m","d","i","r">>, <<"e","c","h","o">>,
      <<"f","i","n","d">>, <<"p","i","n","g">>, <<"d","i","r">> }

\* JobGenerator.__init__
InitStats == [phases_generees |-> 0, commandes_traitees |-> 0, erreurs |-> 0]
InitPhase == 10

(***************************************************************************)
(* The source stream f_in is [lines, bad, utf8]: the raw lines of the      *)
(* file, the index of the first raw line that does not decode as UTF-8     *)
(* (0: the file is valid UTF-8), and whether it is opened as UTF-8.        *)
(* readline raises UnicodeDecodeError when it reaches the line bad of a    *)
(* stream opened as UTF-8.                                                 *)
(***************************************************************************)
\* mutant: the reader returns the next raw line, blank or not
NextRawLine(lines, pos) == IF pos >= Len(lines) THEN Len(lines) + 1 ELSE pos + 1

\* index of the first raw line after pos that is not blank, Len+1 if none
RECURSIVE NextNonBlank(_, _)
NextNonBlank(lines, pos) ==
    IF pos >= Len(lines)
    THEN Len(lines) + 1
    ELSE IF Strip(lines[pos + 1]) # <<>> THEN pos + 1 ELSE NextNonBlank(lines, pos + 1)

\* lire_ligne: [line, eof, raised, pos]
lire_ligne(f_in, pos) ==
    LET j == NextNonBlank(f_in.lines, pos)
        last == IF j > Len(f_in.lines) THEN Len(f_in.lines) ELSE j
    IN  IF f_in.utf8 /\ f_in.bad > pos /\ f_in.bad <= last
        THEN [line |-> None, eof |-> FALSE, raised |-> TRUE, pos |-> pos]
        ELSE IF j > Len(f_in.lines)
             THEN [line |-> None, eof |-> TRUE, raised |-> FALSE, pos |-> Len(f_in.lines)]
             ELSE [line |-> Strip(f_in.lines[j]), eof |-> FALSE, raised |-> FALSE, pos |-> j]

(***************************************************************************)
(* The run's context ctx: the generator's fields (phase, job_name,         *)
(* nom_job2, stats), the text written to f_out so far (out), the cursor    *)
(* of f_in (pos), whether a read raised UnicodeDecodeError (raised), and   *)
(* the history of what lire_ligne returned on this stream (reads).         *)
(***************************************************************************)
Write(ctx, lines) == [ctx EXCEPT !.out = @ \o lines]

\* the context after a call of lire_ligne that returned r
AfterRead(ctx, r) ==
    [ctx EXCEPT !.pos = r.pos,
                !.raised = r.raised,
                !.reads = IF r.raised THEN @ ELSE Append(@, [line |-> r.line, eof |-> r.eof])]

\* the text _write_bloc_relance writes
BlocRelance(phase_prec, phase_retour) ==
    << <<"if %errorlevel% EQU 0 goto finSTEP", ToString(phase_prec)>>,
       <<"if %errorlevel% NEQ 0 set ERR=Erreur execution %NOMTRAIT% & set /a nberr = %nberr%+1">>,
       <<"if %nberr% EQU 1 ", SEND_MAIL, " & goto STEP", ToString(phase_retour)>>,
       <<"if %nberr% GTR 1 goto ERREUR">>,
       <<":finSTEP", ToString(phase_prec)>>,
       <<>> >>

\* _write_bloc_relance(f_out, phase_prec, phase_retour); a caller that leaves
\* phase_retour out (None) passes phase_prec
write_bloc_relance(ctx, phase_prec, phase_retour) ==
    Write(ctx, BlocRelance(phase_prec, phase_retour))

\* _write_entete
Entete(nom_job2, date_jour, auteur, lib_job, desc_job, username) ==
    << <<"@echo off">>,
       <<LIGNE_REM_1>>, <<LIGNE_REM_2>>,
       <<"rem #-- Nom     : ">> \o nom_job2,
       <<"rem #-- Version : 1.00                   Date : ", date_jour>>,
       <<"rem #-- Auteur  : ">> \o auteur,
       <<LIGNE_REM_2>>,
       <<"rem #-- Objet   : ">> \o lib_job,
       <<"rem #--           ">> \o desc_job,
       <<LIGNE_REM_2>>, <<"rem #-- Commentaires :">>, <<LIGNE_REM_3>>,
       <<LIGNE_REM_2>>, <<"rem #--               Auteur   |      Date">>,
       <<LIGNE_REM_2>>, <<LIGNE_REM_3, " ", username, "  |    ", date_jour>>,
       <<LIGNE_REM_2>>, <<LIGNE_REM_1>>, <<>> >>

\* _write_initialisation
Initialisation(nom_job2) ==
    << <<"rem Chargement du .profile">>,
       <<"call %0\\..\\..\\..\\skl\\param\\profile.bat">>, <<>>,
       <<"rem Récup des paramètres">>, <<"set SCHEDULE_NAME_PLAN=%1">>, <<>>, <<>>,
       <<"rem Chargement de l'environnement">>,
       <<"%PF_PERLENV%perl %0\\..\\..\\..\\skl\\param\\skl_uni_env.pl %0 > %0_env.bat">>,
       <<"call %0_env.bat">>, <<"del  %0_env.bat">>, <<>>,
       <<"rem Chargement de l'env spécif">>,
       <<"if exist %PF_PARAM%\\%PF_APPLI%_appli.bat call %PF_PARAM%\\%PF_APPLI%_appli.bat">>, <<>>,
       <<"set nom_job=">> \o nom_job2, <<>>,
       <<LIGNE_REM_4>>, <<"set PHASE=00 - Début du job">>, <<LIGNE_REM_4>>,
       <<"%PERL% %PF_SKL_PROC%\\skl_debutjob.pl">>, <<>>,
       <<"%D% && cd %FM_PROG%">>, <<"rem goto STEP000">> >>

\* mutant: the trailer without its success jump
FinJobSansGoto ==
    << <<>>, <<LIGNE_REM_4>>, <<"set PHASE=99 - Fin du job">>, <<LIGNE_REM_4>>,
       <<"%PERL% %PF_SKL_PROC%\\skl_finjob.pl">>, <<>>, <<>>, <<>>,
       <<LIGNE_REM_4>>, <<"rem GESTION DES ERREURS">>, <<LIGNE_REM_4>>, <<>>,
       <<":ERREUR">>, <<"%PERL% %PF_SKL_PROC%\\skl_message.pl F %ERRORLEVEL% %ERR%">>,
       <<"%EXIT% 8">>, <<"exit   8">>, <<>>, <<":FIN">>, <<"%EXIT% 0">>, <<>> >>

\* _write_fin_job
FinJob ==
    << <<>>, <<LIGNE_REM_4>>, <<"set PHASE=99 - Fin du job">>, <<LIGNE_REM_4>>,
       <<"%PERL% %PF_SKL_PROC%\\skl_finjob.pl">>, <<>>, <<"goto FIN">>, <<>>, <<>>,
       <<LIGNE_REM_4>>, <<"rem GESTION DES ERREURS">>, <<LIGNE_REM_4>>, <<>>,
       <<":ERREUR">>, <<"%PERL% %PF_SKL_PROC%\\skl_message.pl F %ERRORLEVEL% %ERR%">>,
       <<"copy /y %fmdata%*.%numVERSION% %D%\\prod\\%nomCHAINE%\\save\\erreur\\ >> %JOURNAL% 2>&1">>,
       <<"%EXIT% 8">>, <<"exit   8">>, <<>>, <<":FIN">>, <<"%EXIT% 0">>, <<>> >>

(***************************************************************************)
(* Emission templates: one operator per _traiter_* method.  Each takes     *)
(* the context and returns the context after the method.                   *)
(***************************************************************************)
BumpCommandes(ctx) == [ctx EXCEPT !.stats.commandes_traitees = @ + 1]

\* self.phase += 10
NextPhase(phase) == phase + 10

\* _traiter_ligne_rem
traiter_ligne_rem(ctx, line) ==
    LET parts == Split(line, "-")
    IN  IF Len(parts) < 3
        THEN Write(ctx, <<line>>)
        ELSE LET nberr == IF \E sub \in CMDS_NBERR : Contains(line, sub)
                          THEN << <<"set nberr=0">> >>
                          ELSE <<>>
                 lib_phase == Strip(parts[3])
                 trt == Strip(parts[2])
                 c == Write(ctx,
                        nberr \o
                        << <<":STEP", ToString(ctx.phase)>>,
                           <<LIGNE_REM_4>>,
                           <<"set PHASE=">> \o ctx.job_name
                               \o <<" - ", ToString(ctx.phase), " - ">> \o lib_phase,
                           <<LIGNE_REM_4>>,
                           <<"set num_phase=", ToString(ctx.phase)>>,
                           <<LIGNE_SET_1>> \o trt,
                           <<LIGNE_INF_1>>,
                           <<>> >>)
             IN  [c EXCEPT !.stats.phases_generees = @ + 1,
                           !.phase = NextPhase(@)]

\* _traiter_cmd_fm_prog
traiter_cmd_fm_prog(ctx, line) ==
    LET phase_prec == ctx.phase - 10
        c == IF \E cmd \in CMDS_RELANCE : Contains(line, cmd)
             THEN write_bloc_relance(
                      Write(ctx,
                            IF Contains(line, <<"p","e","x","p","o","r","t">>)
                            THEN <<line>>
                            ELSE <<line \o <<" >> %JOURNAL% 2>&1 ">>>>),
                      phase_prec, phase_prec)
             ELSE IF Contains(line, <<"p","i","m","p","o","r","t">>)
                  THEN IF ~Contains(line, <<",">>)
                       THEN write_bloc_relance(Write(ctx, <<line>>), phase_prec, phase_prec)
                       ELSE Write(ctx, <<line, <<LIGNE_ERR_1>>, <<>>>>)
                  ELSE IF Len(line) > 29
                          /\ Slice(line, 25, 29) \in { <<"5","1","0","0">>, <<"5","1","0","1">>,
                                                       <<"5","1","0","2">> }
                       THEN Write(ctx, <<line, <<LIGNE_ERR_2>>>>)
                       ELSE Write(ctx, <<line, <<LIGNE_ERR_1>>, <<>>>>)
    IN  BumpCommandes(c)

\* the test of _traiter_uniq on the line it read ahead
IsSecondUniq(r) == ~r.eof /\ r.line # None /\ Contains(r.line, <<"u","n","i","q">>)

\* mutant: the intermediate label is the previous phase number
PhaseInterPrec(phase) == phase - 10

\* phase_inter = self.phase - 5
PhaseInter(phase) == phase - 5

\* _traiter_uniq
traiter_uniq(ctx, line, f_in, phase_prec) ==
    LET r == lire_ligne(f_in, ctx.pos)
        c == AfterRead(ctx, r)
    IN  IF r.raised
        THEN c
        ELSE IF IsSecondUniq(r)
             THEN LET phase_inter == PhaseInter(c.phase)
                  IN  write_bloc_relance(
                          Write(c,
                            << <<"if %errorlevel% EQU 0 goto STEP", ToString(phase_inter)>>,
                               <<"if %errorlevel% NEQ 0 set ERR=Erreur execution %NOMTRAIT% & set /a nberr = %nberr%+1">>,
                               <<"if %nberr% EQU 1 ", SEND_MAIL, " & goto STEP", ToString(phase_prec)>>,
                               <<"if %nberr% GTR 1 goto ERREUR">>,
                               <<":STEP", ToString(phase_inter)>>,
                               r.line \o <<" 2>> %JOURNAL%">> >>),
                          phase_prec, phase_inter)
             ELSE write_bloc_relance(c, phase_prec, phase_prec)

\* mutant: a grep line gets the checks of any other external tool
BlocGrepGenerique(phase_prec) == BlocRelance(phase_prec, phase_prec)

\* the checks _traiter_cmd_pf_exe writes after a grep line
BlocGrep(phase_prec) ==
    << <<"if %errorlevel% LSS 2 goto finSTEP", ToString(phase_prec)>>,
       <<"if %errorlevel% GTR 1 set ERR=Erreur execution %NOMTRAIT% & set /a nberr = %nberr%+1">>,
       <<"if %nberr% EQU 1 ", SEND_MAIL, " & goto STEP", ToString(phase_prec)>>,
       <<"if %nberr% GTR 1 goto ERREUR">>,
       <<":finSTEP", ToString(phase_prec)>>,
       <<>> >>

\* _traiter_cmd_pf_exe
traiter_cmd_pf_exe(ctx, line, f_in) ==
    LET phase_prec == ctx.phase - 10
        c0 == Write(ctx, <<line \o <<" 2>> %JOURNAL%">>>>)
        c == IF Contains(line, <<"g","r","e","p">>)
             THEN Write(c0, BlocGrep(phase_prec))
             ELSE IF Contains(line, <<"u","n","i","q">>)
                  THEN traiter_uniq(c0, line, f_in, phase_prec)
                  ELSE IF Contains(line, <<"u","n","i","x","2","d","o","s">>)
                          \/ Contains(line, <<"t","o","u","c","h">>)
                       THEN Write(c0, <<<<LIGNE_ERR_1>>>>)
                       ELSE write_bloc_relance(c0, phase_prec, phase_prec)
    IN  IF c.raised THEN c ELSE BumpCommandes(c)

\* _traiter_mouvement_fichier
traiter_mouvement_fichier(ctx, line) ==
    LET parts == SplitWs(line)
    IN  IF Len(parts) < 3
        THEN Write(ctx, <<line>>)
        ELSE LET mvt_type == Strip(Slice(line, 0, 4))
             IN  BumpCommandes(Write(ctx,
                    << <<LIGNE_COPY_1>>,
                       <<LIGNE_COPY_2, " ">> \o mvt_type,
                       <<"echo Source :  ">> \o parts[2] \o <<" >> %JOURNAL% 2>&1">>,
                       <<"echo Cible :   ">> \o parts[3] \o <<" >> %JOURNAL% 2>&1">>,
                       <<LIGNE_COPY_1>>,
                       <<>>,
                       line \o <<" >> %JOURNAL% 2>&1">>,
                       <<>> >>))

\* the while loop of _traiter_boucle_for
RECURSIVE boucle_for_scan(_, _)
boucle_for_scan(ctx, f_in) ==
    LET r == lire_ligne(f_in, ctx.pos)
        c == AfterRead(ctx, r)
    IN  IF r.raised
        THEN c
        ELSE IF r.eof \/ r.line = None
             THEN c
             ELSE IF r.line = <<")">>
                  THEN Write(c, <<r.line>>)
                  ELSE IF Lower(Slice(r.line, 0, 3)) # <<"r","e","m">>
                       THEN boucle_for_scan(
                                Write(c, <<r.line \o <<" 2>> %JOURNAL%">>, <<LIGNE_ERR_2>>>>), f_in)
                       ELSE boucle_for_scan(Write(c, <<r.line>>), f_in)

\* mutant: the loop-open line is written and no block is scanned
traiter_boucle_for_sans_scan(ctx, line, f_in) == Write(ctx, <<line>>)

\* _traiter_boucle_for
traiter_boucle_for(ctx, line, f_in) ==
    LET c == Write(ctx, <<line>>)
    IN  IF Count(line, "(") # Count(line, ")")
        THEN boucle_for_scan(c, f_in)
        ELSE c

\* the phase-marker test of _traiter_ligne on a comment line
IsPhaseMarker(line) == Len(line) > 4 /\ line[5] = "-" /\ Count(line, "-") >= 2

\* mutant: a line that matches no rule is dropped
ecrire_rien(ctx, line) == ctx

\* the line written by the last statement of _traiter_ligne
ecrire_opaque(ctx, line) == Write(ctx, <<line>>)

\* mutant: the if statements of _traiter_ligne with the call test moved up
ReglesAppelAvant ==
    <<"rem", "fm_prog", "pf_exe", "forfiles", "for", "call", "simple", "mouvement",
      "del", "perl">>

\* the if statements of _traiter_ligne, in the order of the code
Regles ==
    <<"rem", "fm_prog", "pf_exe", "forfiles", "for", "simple", "call", "mouvement",
      "del", "perl">>

\* the condition of each if statement of _traiter_ligne
Teste(regle, line) ==
    LET line_lower == Lower(line)
    IN  CASE regle = "rem" -> StartsWith(line_lower, <<"r","e","m">>)
          [] regle = "fm_prog" -> Contains(line, <<"%","F","M","_","P","R","O","G","%">>)
          [] regle = "pf_exe" -> Contains(line, <<"%","P","F","_","E","X","E">>)
          [] regle = "forfiles" -> Contains(line_lower, <<"f","o","r","f","i","l","e","s">>)
          [] regle = "for" -> \/ StartsWith(line_lower, <<"f","o","r"," ">>)
                              \/ StartsWith(line_lower, <<"f","o","r","%","%">>)
          [] regle = "simple" -> \E cmd \in CMDS_SIMPLES : StartsWith(line_lower, cmd)
          [] regle = "call" ->
                \/ Contains(line_lower, <<"c","a","l","l">>)
                \/ Contains(line_lower, <<"p","r","o","g","r","a","m"," ","f","i","l","e","s">>)
          [] regle = "mouvement" -> \/ StartsWith(line_lower, <<"m","o","v","e">>)
                                    \/ StartsWith(line_lower, <<"c","o","p","y">>)
          [] regle = "del" -> StartsWith(line_lower, <<"d","e","l">>)
          [] regle = "perl" -> Contains(line, <<"%","P","E","R","L","%">>)
          [] OTHER -> FALSE

\* the first if statement of _traiter_ligne whose condition holds, "opaque"
\* when none does
classer(line) ==
    LET m == {i \in DOMAIN Regles : Teste(Regles[i], line)}
    IN  IF m = {} THEN "opaque" ELSE Regles[CHOOSE i \in m : \A j \in m : i <= j]

\* the body of each if statement of _traiter_ligne
Gabarit(regle, ctx, line, f_in) ==
    CASE regle = "rem" -> IF IsPhaseMarker(line) THEN traiter_ligne_rem(ctx, line) ELSE ctx
      [] regle = "fm_prog" -> traiter_cmd_fm_prog(ctx, line)
      [] regle = "pf_exe" -> traiter_cmd_pf_exe(ctx, line, f_in)
      [] regle = "forfiles" -> Write(ctx, <<line \o <<" >> %JOURNAL% 2>&1">>, <<>>>>)
      [] regle = "for" -> traiter_boucle_for(ctx, line, f_in)
      [] regle = "simple" -> Write(ctx, <<line>>)
      [] regle = "call" -> BumpCommandes(Write(ctx, <<line, <<LIGNE_ERR_1>>, <<>>>>))
      [] regle = "mouvement" -> traiter_mouvement_fichier(ctx, line)
      [] regle = "del" -> Write(ctx, <<line \o <<" >> %JOURNAL% 2>&1">>>>)
      [] regle = "perl" ->
            IF Contains(Lower(line), <<"s","e","n","d","m","a","i","l">>)
            THEN write_bloc_relance(Write(ctx, <<line \o <<" >> %JOURNAL% 2>&1">>>>),
                                    ctx.phase - 10, ctx.phase - 10)
            ELSE Write(ctx, <<line \o <<" >> %JOURNAL% 2>&1">>, <<LIGNE_ERR_1>>, <<>>>>)
      [] OTHER -> ecrire_opaque(ctx, line)

\* _traiter_ligne: the classifier, first matching rule wins
traiter_ligne(ctx, line, f_in) == Gabarit(classer(line), ctx, line, f_in)

\* mutant: the counter is left as the previous run left it
StartPhaseKeep(config, old) == old

\* generer, first statement: the phase a run starts from
StartPhase(config, old) == IF config.phase_depart = 0 THEN 10 ELSE config.phase_depart

(***************************************************************************)
(* The body of the with statement of generer and _generer_avec_encodage up *)
(* to the main loop: the four header reads, the header and the             *)
(* initialisation block.  ret is "raise" (UnicodeDecodeError), "false"     *)
(* (return False: no first line) or "ok".                                  *)
(***************************************************************************)
\* mutant: the initialisation block is never written
ecrire_entete_sans_init(ctx, config, auteur, lib_job, desc_job) ==
    Write(ctx,
          Entete(ctx.nom_job2, config.date_jour, auteur, lib_job, desc_job, config.username))

\* _write_entete, then _write_initialisation unless the name holds ".cmd"
ecrire_entete(ctx, config, auteur, lib_job, desc_job) ==
    Write(ctx,
          Entete(ctx.nom_job2, config.date_jour, auteur, lib_job, desc_job, config.username)
          \o (IF ~Contains(ctx.job_name, <<".","c","m","d">>)
              THEN Initialisation(ctx.nom_job2)
              ELSE <<>>))

\* mutant: the line read is used without looking at eof
ValeurLue(r, defaut) == r.line

\* `line if not eof else <default>`
ValeurOuDefaut(r, defaut) == IF ~r.eof THEN r.line ELSE defaut

\* the fourth read: desc_job
lire_desc(ctx, f_in, config, auteur, lib_job) ==
    LET r == lire_ligne(f_in, ctx.pos)
    IN  IF r.raised
        THEN [c |-> AfterRead(ctx, r), ret |-> "raise"]
        ELSE [c |-> ecrire_entete(AfterRead(ctx, r), config, auteur, lib_job,
                                  ValeurOuDefaut(r, <<>>)),
              ret |-> "ok"]

\* the third read: lib_job
lire_lib(ctx, f_in, config, auteur) ==
    LET r == lire_ligne(f_in, ctx.pos)
    IN  IF r.raised
        THEN [c |-> AfterRead(ctx, r), ret |-> "raise"]
        ELSE lire_desc(AfterRead(ctx, r), f_in, config, auteur, ValeurOuDefaut(r, <<>>))

\* the second read: auteur
lire_auteur(ctx, f_in, config) ==
    LET r == lire_ligne(f_in, ctx.pos)
    IN  IF r.raised
        THEN [c |-> AfterRead(ctx, r), ret |-> "raise"]
        ELSE lire_lib(AfterRead(ctx, r), f_in, config,
                      ValeurOuDefaut(r, <<"U","N","K","N","O","W","N">>))

\* the first read: job_name, nom_job2
lire_entete(ctx, f_in, config) ==
    LET r == lire_ligne(f_in, ctx.pos)
    IN  IF r.raised THEN [c |-> AfterRead(ctx, r), ret |-> "raise"]
        ELSE IF r.eof THEN [c |-> AfterRead(ctx, r), ret |-> "false"]
        ELSE lire_auteur([AfterRead(ctx, r) EXCEPT !.job_name = r.line,
                                                   !.nom_job2 = Split(r.line, ".")[1]],
                         f_in, config)

(***************************************************************************)
(* Inputs.                                                                 *)
(***************************************************************************)
L_JOB_BAT == <<"j",".","b","a","t">>
L_JOB_CMD == <<"j",".","c","m","d">>
L_AUTEUR == <<"J","D">>
L_LIB == <<"T","i">>
L_DESC == <<"D","e">>

L_PHASE == <<"r","e","m"," ","-","T","-","L">>
L_PHASE_NBERR == <<"r","e","m"," ","-","T","-","s","o","r","t">>
L_PHASE_SPEC == <<"r","e","m"," ","#","-","-","T","-","L">>
L_UNIQ == <<"%","P","F","_","E","X","E","%","u","n","i","q">>
L_EXE == <<"%","P","F","_","E","X","E","%","x">>
L_ECHO == <<"e","c","h","o"," ","x">>
L_FOR == <<"f","o","r"," ","%","i"," ","d","o"," ","(">>
L_PAREN == <<")">>
L_BLANK == <<" ">>
L_PADDED == <<" ","e","c","h","o"," ","x","\t">>

BodyVocab ==
    {L_PHASE, L_PHASE_NBERR, L_PHASE_SPEC, L_UNIQ, L_EXE, L_ECHO, L_FOR, L_PAREN,
     L_BLANK, L_PADDED}

BoundedSeq(S, n) == UNION {[1..k -> S] : k \in 0..n}

\* the source files: nothing, a blank line, an incomplete header, or a
\* complete header followed by up to maxBody lines of vocab
Files(vocab, maxBody) ==
    { <<>>, <<L_BLANK>> }
    \cup { SubSeq(<<job, L_AUTEUR, L_LIB, L_DESC>>, 1, k) :
              job \in {L_JOB_BAT, L_JOB_CMD}, k \in 1..3 }
    \cup { <<job, L_AUTEUR, L_LIB, L_DESC>> \o b :
              job \in {L_JOB_BAT, L_JOB_CMD}, b \in BoundedSeq(vocab, maxBody) }

\* where the first byte that is not UTF-8 may be: in the header, or after
\* the first body line
BadPositions == {2, 6}

Sources(vocab, maxBody) ==
    { [exists |-> FALSE, lines |-> <<>>, bad |-> 0] }
    \cup UNION { { [exists |-> TRUE, lines |-> f, bad |-> b] :
                      b \in {0} \cup {p \in BadPositions : p <= Len(f) /\ Strip(f[p]) # <<>>} } :
                    f \in Files(vocab, maxBody) }

PhaseDeparts == {0, 25}

Configs ==
    [phase_depart : PhaseDeparts, date_jour : {"01/01/2024"}, username : {"jdoe"}]

(***************************************************************************)
(* State.                                                                  *)
(*   phase, job_name, nom_job2, stats : the fields of the JobGenerator     *)
(*   config      : the JobConfig of the current call of generer            *)
(*   src         : the file at config.input_path                           *)
(*   utf8, pos   : f_in: opened as UTF-8 or with the detected encoding,    *)
(*                 and the number of raw lines consumed                    *)
(*   out, destExists : the file at config.output_path                      *)
(*   pc          : "idle" (before the call), "body" (in the main loop),    *)
(*                 "decode" (in the except UnicodeDecodeError handler),    *)
(*                 "done" (generer has returned), "between" (between two   *)
(*                 calls of generer on the same object)                    *)
(*   result      : what generer returned: "none", "true", "false"          *)
(*   runs        : calls of generer made on this object so far             *)
(*   phase0      : history: self.phase when generer was called              *)
(*   reads, steps, ioerr : history: what lire_ligne returned on the open   *)
(*                 stream; per main-loop iteration, the raw index of its   *)
(*                 line (at), the cursor after its handler (upto), the     *)
(*                 output lines it wrote (first..last) and the phase       *)
(*                 counter before and after it (phase, next); whether the  *)
(*                 run met an I/O error                                    *)
(*   ip, errorlevel, nberr : an execution by cmd.exe of the script a       *)
(*                 successful run wrote: the line to execute next (0: not  *)
(*                 started, Len(out)+1: ended), %errorlevel%, %nberr%      *)
(*   mails, cmdAt, consec, jumpFrom : history of that execution: calls of  *)
(*                 sendMail.cmd, the line of the command executed last,    *)
(*                 how many times in a row it has failed, the line of the  *)
(*                 last goto taken                                         *)
(*   autre       : a second call of generer in progress on the same        *)
(*                 object, in another thread: its local state while it is  *)
(*                 not the one running (config, src, utf8, pos, out,       *)
(*                 destExists, pc, result, reads, steps, ioerr, phase0);   *)
(*                 pc "absent" when there is none                          *)
(*   nom_fichier, chemin_relatif_git, dossier : a call of                  *)
(*                 determiner_dossier_serveur: its arguments and what it   *)
(*                 returned ("none" before it returns)                     *)
(*   files, transfert, dry_run : a call of transfer_files on a             *)
(*                 FileTransferManager: the Git paths of the files, the    *)
(*                 transfert argument, the manager's dry_run field         *)
(*   tpc         : "absent" (no call), "boucle" (in the for loop, between  *)
(*                 two files), "transfert" (_process_single_file is about  *)
(*                 to call _effectuer_transfert), "rendu" (returned)       *)
(*   results     : self.results, one TransferResult per file handled       *)
(*   fm          : the names of the files in the local folder FM_path      *)
(*   serveur     : per file name, the file at its server path (cible) and  *)
(*                 the one at that path with the date suffix (sauvegarde): *)
(*                 "absent", or what it holds                              *)
(*   serveur0, transferes : history: the server as it was when             *)
(*                 _effectuer_transfert was called for a name; the names   *)
(*                 it was called for                                       *)
(***************************************************************************)
VARIABLES phase, job_name, nom_job2, stats, config, src, utf8, pos, out, destExists,
          pc, result, runs, reads, steps, ioerr, phase0,
          ip, errorlevel, nberr, mails, cmdAt, consec, jumpFrom,
          autre, nom_fichier, chemin_relatif_git, dossier,
          files, transfert, dry_run, tpc, results, fm, serveur, serveur0, transferes

genVars == <<phase, job_name, nom_job2, stats, config, src, utf8, pos, out, destExists,
             pc, result, runs, reads, steps, ioerr, phase0>>
execVars == <<ip, errorlevel, nberr, mails, cmdAt, consec, jumpFrom>>
concVars == <<autre>>
routeVars == <<nom_fichier, chemin_relatif_git, dossier>>
xferVars == <<files, transfert, dry_run, tpc, results, fm, serveur, serveur0, transferes>>
vars == <<phase, job_name, nom_job2, stats, config, src, utf8, pos, out, destExists,
          pc, result, runs, reads, steps, ioerr, phase0,
          ip, errorlevel, nberr, mails, cmdAt, consec, jumpFrom,
          autre, nom_fichier, chemin_relatif_git, dossier,
          files, transfert, dry_run, tpc, results, fm, serveur, serveur0, transferes>>

Ctx ==
    [phase |-> phase, job_name |-> job_name, nom_job2 |-> nom_job2, stats |-> stats,
     out |-> out, pos |-> pos, raised |-> FALSE, reads |-> reads]

F_in == [lines |-> src.lines, bad |-> src.bad, utf8 |-> utf8]

\* the variables a context holds take its values
Commit(c) ==
    /\ phase' = c.phase
    /\ job_name' = c.job_name
    /\ nom_job2' = c.nom_job2
    /\ stats' = c.stats
    /\ out' = c.out
    /\ pos' = c.pos
    /\ reads' = c.reads

ExecInit ==
    /\ ip = 0
    /\ errorlevel = 0
    /\ nberr = 0
    /\ mails = 0
    /\ cmdAt = 0
    /\ consec = 0
    /\ jumpFrom = 0

\* no second call in progress
Absent == [pc |-> "absent"]

\* no call of transfer_files
XferInit ==
    /\ files = <<>>
    /\ transfert = FALSE
    /\ dry_run = FALSE
    /\ tpc = "absent"
    /\ results = <<>>
    /\ fm = {}
    /\ serveur = <<>>
    /\ serveur0 = <<>>
    /\ transferes = {}

\* no call of determiner_dossier_serveur
RouteInit ==
    /\ nom_fichier = <<>>
    /\ chemin_relatif_git = <<>>
    /\ dossier = "none"

\* a new JobGenerator, and the arguments of the first call of generer
InitGen(sources, configs) ==
    /\ phase = InitPhase
    /\ job_name = <<>>
    /\ nom_job2 = <<>>
    /\ stats = InitStats
    /\ config \in configs
    /\ src \in sources
    /\ utf8 = TRUE
    /\ pos = 0
    /\ out = <<>>
    /\ destExists = FALSE
    /\ pc = "idle"
    /\ result = "none"
    /\ runs = 1
    /\ reads = <<>>
    /\ steps = <<>>
    /\ ioerr = FALSE
    /\ phase0 = InitPhase

InitFrom(sources, configs) ==
    /\ InitGen(sources, configs)
    /\ ExecInit
    /\ autre = Absent
    /\ RouteInit
    /\ XferInit

InitWith(sources) == InitFrom(sources, Configs)

Init == InitWith(Sources(BodyVocab, MaxBody))

\* generer: the source file does not exist
GenererIntrouvable ==
    /\ pc = "idle"
    /\ ~src.exists
    /\ phase' = StartPhase(config, phase)
    /\ stats' = InitStats
    /\ result' = "false"
    /\ pc' = "done"
    /\ UNCHANGED <<job_name, nom_job2, config, src, utf8, pos, out, destExists, runs,
                   reads, steps, ioerr>>
    /\ phase0' = phase
    /\ UNCHANGED <<execVars, concVars, routeVars, xferVars>>

\* generer: open() of the destination raises (any Exception but a decoding
\* error): nothing is created
GenererSortieIndisponible ==
    /\ pc = "idle"
    /\ src.exists
    /\ phase' = StartPhase(config, phase)
    /\ stats' = InitStats
    /\ result' = "false"
    /\ ioerr' = TRUE
    /\ pc' = "done"
    /\ UNCHANGED <<job_name, nom_job2, config, src, utf8, pos, out, destExists, runs,
                   reads, steps>>
    /\ phase0' = phase
    /\ UNCHANGED <<execVars, concVars, routeVars, xferVars>>

\* generer: both files are opened (the destination is created or truncated),
\* the header is read and written
GenererOuvrir ==
    /\ pc = "idle"
    /\ src.exists
    /\ LET c0 == [Ctx EXCEPT !.phase = StartPhase(config, phase), !.stats = InitStats,
                             !.out = <<>>, !.pos = 0, !.reads = <<>>]
           h == lire_entete(c0, F_in, config)
       IN  /\ Commit(h.c)
           /\ pc' = CASE h.ret = "raise" -> "decode"
                      [] h.ret = "false" -> "done"
                      [] OTHER -> "body"
           /\ result' = IF h.ret = "false" THEN "false" ELSE "none"
    /\ destExists' = TRUE
    /\ steps' = <<>>
    /\ UNCHANGED <<config, src, utf8, runs, ioerr>>
    /\ phase0' = phase
    /\ UNCHANGED <<execVars, concVars, routeVars, xferVars>>

\* one iteration of the main loop that reads a line: _traiter_ligne on it
TraiterCorps ==
    /\ pc = "body"
    /\ LET r == lire_ligne(F_in, pos)
           c0 == AfterRead(Ctx, r)
       IN  /\ ~r.eof
           /\ IF r.raised
              THEN /\ Commit(c0)
                   /\ pc' = "decode"
                   /\ UNCHANGED steps
              ELSE LET c == traiter_ligne(c0, r.line, F_in)
                   IN  /\ Commit(c)
                       /\ pc' = IF c.raised THEN "decode" ELSE "body"
                       /\ steps' = IF c.raised
                                   THEN steps
                                   ELSE Append(steps,
                                               [at |-> r.pos, upto |-> c.pos,
                                                first |-> Len(out) + 1, last |-> Len(c.out),
                                                phase |-> phase, next |-> c.phase])
    /\ UNCHANGED <<config, src, utf8, destExists, result, runs, ioerr>>
    /\ UNCHANGED phase0
    /\ UNCHANGED <<execVars, concVars, routeVars, xferVars>>

\* the main loop reads end-of-input: the trailer is written, generer returns True
Terminer ==
    /\ pc = "body"
    /\ LET r == lire_ligne(F_in, pos)
           c0 == AfterRead(Ctx, r)
       IN  /\ ~r.raised
           /\ r.eof
           /\ Commit(Write(c0, FinJob))
    /\ pc' = "done"
    /\ result' = "true"
    /\ UNCHANGED <<config, src, utf8, destExists, runs, steps, ioerr>>
    /\ UNCHANGED phase0
    /\ UNCHANGED <<execVars, concVars, routeVars, xferVars>>

\* except UnicodeDecodeError: _generer_avec_encodage reopens both files with
\* the detected encoding and starts over; self.phase and self.stats are as
\* the failed attempt left them
GenererAvecEncodage ==
    /\ pc = "decode"
    /\ utf8' = FALSE
    /\ LET c0 == [Ctx EXCEPT !.out = <<>>, !.pos = 0, !.reads = <<>>]
           h == lire_entete(c0, [F_in EXCEPT !.utf8 = FALSE], config)
       IN  /\ Commit(h.c)
           /\ pc' = IF h.ret = "false" THEN "done" ELSE "body"
           /\ result' = IF h.ret = "false" THEN "false" ELSE "none"
    /\ steps' = <<>>
    /\ UNCHANGED <<config, src, destExists, runs, ioerr>>
    /\ UNCHANGED phase0
    /\ UNCHANGED <<execVars, concVars, routeVars, xferVars>>

\* an I/O error in the middle of the run (except Exception): the with
\* statement closes both files, generer returns False
ErreurES ==
    /\ pc = "body"
    /\ pc' = "done"
    /\ result' = "false"
    /\ ioerr' = TRUE
    /\ UNCHANGED <<phase, job_name, nom_job2, stats, config, src, utf8, pos, out,
                   destExists, runs, reads, steps>>
    /\ UNCHANGED phase0
    /\ UNCHANGED <<execVars, concVars, routeVars, xferVars>>

\* generer has returned: between two calls only the JobGenerator object
\* holds state
Retour ==
    /\ pc = "done"
    /\ runs < MaxRuns
    /\ pc' = "between"
    /\ config' = [phase_depart |-> 0, date_jour |-> "", username |-> ""]
    /\ src' = [exists |-> FALSE, lines |-> <<>>, bad |-> 0]
    /\ utf8' = TRUE
    /\ pos' = 0
    /\ out' = <<>>
    /\ destExists' = FALSE
    /\ result' = "none"
    /\ reads' = <<>>
    /\ steps' = <<>>
    /\ ioerr' = FALSE
    /\ UNCHANGED <<phase, job_name, nom_job2, stats, runs>>
    /\ UNCHANGED phase0
    /\ UNCHANGED <<execVars, concVars, routeVars, xferVars>>

\* the caller calls generer again on the same object, with another
\* JobConfig (other paths)
Relancer ==
    /\ pc = "between"
    /\ runs' = runs + 1
    /\ config' \in Configs
    /\ src' \in Sources(BodyVocab, MaxBodyRerun)
    /\ pc' = "idle"
    /\ UNCHANGED <<phase, job_name, nom_job2, stats, utf8, pos, out, destExists, result,
                   reads, steps, ioerr>>
    /\ UNCHANGED phase0
    /\ UNCHANGED <<execVars, concVars, routeVars, xferVars>>

Next ==
    \/ GenererIntrouvable
    \/ GenererSortieIndisponible
    \/ GenererOuvrir
    \/ TraiterCorps
    \/ Terminer
    \/ GenererAvecEncodage
    \/ ErreurES
    \/ Retour
    \/ Relancer

Spec == Init /\ [][Next]_vars

(***************************************************************************)
(* Execution of the generated script, for the claims about what the retry  *)
(* scaffold does when it runs.  A command line (a source line written with *)
(* a journal redirect) ends with any exit code; the lines of the scaffold  *)
(* test %errorlevel% and %nberr% and jump as cmd.exe does: goto searches   *)
(* the label from the next line to the end of the file, then from the top. *)
(***************************************************************************)
ExecVocab == {L_PHASE, L_PHASE_NBERR, L_EXE}

InitExec ==
    InitWith({ [exists |-> TRUE, lines |-> <<L_JOB_CMD, L_AUTEUR, L_LIB, L_DESC>> \o b,
                bad |-> 0] : b \in BoundedSeq(ExecVocab, MaxBodyExec) })

\* a source line written with a redirect to the journal: a command
IsCommandLine(l) ==
    /\ l # <<>>
    /\ l[Len(l)] \in {" 2>> %JOURNAL%", " >> %JOURNAL% 2>&1 ", " >> %JOURNAL% 2>&1"}

\* the line goto reaches from line `from`, 0 if the label is nowhere
GotoTarget(script, from, label) ==
    LET after == {i \in (from + 1)..Len(script) : script[i] = label}
        before == {i \in 1..from : script[i] = label}
    IN  IF after # {} THEN CHOOSE i \in after : \A j \in after : i <= j
        ELSE IF before # {} THEN CHOOSE i \in before : \A j \in before : i <= j
        ELSE 0

\* what the line at ip does: [jump |-> label or <<>>, nberr, mail, exit]
Effect(l, el, nb) ==
    LET stay == [jump |-> <<>>, nberr |-> nb, mail |-> FALSE, exit |-> FALSE]
    IN  CASE l = <<"set nberr=0">> -> [stay EXCEPT !.nberr = 0]
          [] Len(l) = 2 /\ l[1] = "if %errorlevel% EQU 0 goto finSTEP" ->
                IF el = 0 THEN [stay EXCEPT !.jump = <<":finSTEP", l[2]>>] ELSE stay
          [] Len(l) = 2 /\ l[1] = "if %errorlevel% EQU 0 goto STEP" ->
                IF el = 0 THEN [stay EXCEPT !.jump = <<":STEP", l[2]>>] ELSE stay
          [] Len(l) = 2 /\ l[1] = "if %errorlevel% LSS 2 goto finSTEP" ->
                IF el < 2 THEN [stay EXCEPT !.jump = <<":finSTEP", l[2]>>] ELSE stay
          [] l = <<"if %errorlevel% NEQ 0 set ERR=Erreur execution %NOMTRAIT% & set /a nberr = %nberr%+1">> ->
                IF el # 0 THEN [stay EXCEPT !.nberr = nb + 1] ELSE stay
          [] l = <<"if %errorlevel% GTR 1 set ERR=Erreur execution %NOMTRAIT% & set /a nberr = %nberr%+1">> ->
                IF el > 1 THEN [stay EXCEPT !.nberr = nb + 1] ELSE stay
          [] Len(l) = 4 /\ l[1] = "if %nberr% EQU 1 " /\ l[3] = " & goto STEP" ->
                IF nb = 1 THEN [stay EXCEPT !.mail = (l[2] = SEND_MAIL), !.jump = <<":STEP", l[4]>>]
                ELSE stay
          [] l = <<"if %nberr% GTR 1 goto ERREUR">> ->
                IF nb > 1 THEN [stay EXCEPT !.jump = <<":ERREUR">>] ELSE stay
          [] l = <<LIGNE_ERR_1>> ->
                IF el # 0 THEN [stay EXCEPT !.jump = <<":ERREUR">>] ELSE stay
          [] l = <<LIGNE_ERR_2>> ->
                IF el > 1 THEN [stay EXCEPT !.jump = <<":ERREUR">>] ELSE stay
          [] l = <<"goto FIN">> -> [stay EXCEPT !.jump = <<":FIN">>]
          [] l \in { <<"%EXIT% 8">>, <<"%EXIT% 0">> } -> [stay EXCEPT !.exit = TRUE]
          [] OTHER -> stay

\* cmd.exe starts the script of a successful run
Lancer ==
    /\ pc = "done"
    /\ result = "true"
    /\ ip = 0
    /\ ip' = 1
    /\ UNCHANGED <<errorlevel, nberr, mails, cmdAt, consec, jumpFrom>>
    /\ UNCHANGED <<genVars, concVars, routeVars, xferVars>>

\* cmd.exe executes the line at ip
Executer ==
    /\ pc = "done"
    /\ ip \in 1..Len(out)
    /\ LET l == out[ip]
       IN  IF IsCommandLine(l)
           THEN /\ errorlevel' \in {0, 1}
                /\ cmdAt' = ip
                /\ consec' = IF errorlevel' = 0 THEN 0
                             ELSE IF cmdAt = ip THEN consec + 1 ELSE 1
                /\ ip' = ip + 1
                /\ UNCHANGED <<nberr, mails, jumpFrom>>
           ELSE LET e == Effect(l, errorlevel, nberr)
                    target == IF e.jump = <<>> THEN ip + 1 ELSE GotoTarget(out, ip, e.jump)
                IN  /\ nberr' = e.nberr
                    /\ mails' = IF e.mail THEN mails + 1 ELSE mails
                    /\ jumpFrom' = IF e.jump = <<>> THEN jumpFrom ELSE ip
                    /\ ip' = IF e.exit \/ target = 0 THEN Len(out) + 1 ELSE target
                    /\ UNCHANGED <<errorlevel, cmdAt, consec>>
    /\ UNCHANGED <<genVars, concVars, routeVars, xferVars>>

NextExec ==
    \/ GenererOuvrir
    \/ TraiterCorps
    \/ Terminer
    \/ Lancer
    \/ Executer

SpecExec == InitExec /\ [][NextExec]_vars

(***************************************************************************)
(* Properties.                                                             *)
(***************************************************************************)
\* the line of main-loop iteration k, and the output lines it wrote
StepLine(k) == Strip(src.lines[steps[k].at])
StepOut(k) == SubSeq(out, steps[k].first, steps[k].last)

\* the non-blank raw lines an iteration's handler read ahead
StepAhead(k) ==
    {i \in (steps[k].at + 1)..steps[k].upto : \E j \in 1..Len(src.lines[i]) :
                                                  src.lines[i][j] \notin Whitespace}

\* iterations the classifier hands to _traiter_ligne_rem
MarkerSteps ==
    {k \in DOMAIN steps : StartsWith(Lower(StepLine(k)), <<"r","e","m">>)
                          /\ IsPhaseMarker(StepLine(k))}

\* iterations the classifier hands to _traiter_uniq
UniqSteps ==
    {k \in DOMAIN steps :
        LET l == StepLine(k)
        IN  /\ ~StartsWith(Lower(l), <<"r","e","m">>)
            /\ ~Contains(l, <<"%","F","M","_","P","R","O","G","%">>)
            /\ Contains(l, <<"%","P","F","_","E","X","E">>)
            /\ ~Contains(l, <<"g","r","e","p">>)
            /\ Contains(l, <<"u","n","i","q">>)}

\* uniq iterations whose lookahead line is a uniq line too / is another line
PairSteps ==
    {k \in UniqSteps : \E i \in StepAhead(k) : Contains(src.lines[i], <<"u","n","i","q">>)}
LoneSteps ==
    {k \in UniqSteps : \E i \in StepAhead(k) : ~Contains(src.lines[i], <<"u","n","i","q">>)}

ExpectedStart == IF config.phase_depart = 0 THEN 10 ELSE config.phase_depart

\* the numbers of the :STEP labels written by a set of iterations
StepLabels(ks) ==
    {out[i][2] : i \in {j \in DOMAIN out : /\ \E k \in ks : j \in steps[k].first..steps[k].last
                                            /\ Len(out[j]) = 2
                                            /\ out[j][1] = ":STEP"}}

\* C1: in one run the k-th phase-marker line (k = 0, 1, ...) gets the phase
\* number start + 10*k, start being phase_depart, or 10 when it is 0; the
\* intermediate label of a uniq pair is the phase counter minus 5 and is no
\* primary phase number of the run.
C1_PhaseNumbering ==
    /\ \A k \in MarkerSteps :
          \E i \in steps[k].first..steps[k].last :
              out[i] = <<":STEP", ToString(ExpectedStart
                                           + 10 * Cardinality({j \in MarkerSteps : j < k}))>>
    /\ \A k \in PairSteps :
          /\ StepLabels({k}) = {ToString(steps[k].phase - 5)}
          /\ StepLabels({k}) \cap StepLabels(MarkerSteps) = {}

\* the treatment and the label of a line `rem #--<treatment>-<label>`
IsSpecMarker(l) ==
    /\ StartsWith(l, <<"r","e","m"," ","#","-","-">>)
    /\ Contains(SubSeq(l, 8, Len(l)), <<"-">>)
SpecTreatment(l) == Split(SubSeq(l, 8, Len(l)), "-")[1]
SpecLabel(l) ==
    LET rest == SubSeq(l, 8, Len(l))
    IN  SubSeq(rest, Len(SpecTreatment(l)) + 2, Len(rest))

\* C2: a body line `rem #--<treatment>-<label>` makes the engine write, in
\* this order, `set nberr=0` iff the label holds a retry-family keyword,
\* `:STEP<n>`, a `set PHASE=` line holding `<job> - <n> - <label>`, and
\* `set NOMTRAIT=<treatment>`, n being the phase counter, which then
\* advances by 10.
C2_PhaseMarkerOutput ==
    \A k \in DOMAIN steps :
        IsSpecMarker(StepLine(k)) =>
            LET l == StepLine(k)
                n == ToString(steps[k].phase)
                o == StepOut(k)
                reset == \E sub \in CMDS_NBERR : Contains(SpecLabel(l), sub)
            IN  /\ steps[k].next = steps[k].phase + 10
                /\ \E a, b, c \in DOMAIN o :
                      /\ a < b /\ b < c
                      /\ o[a] = <<":STEP", n>>
                      /\ o[b] = <<"set PHASE=">> \o job_name \o <<" - ", n, " - ">> \o SpecLabel(l)
                      /\ o[c] = <<"set NOMTRAIT=">> \o SpecTreatment(l)
                      /\ reset <=> (a > 1 /\ o[a - 1] = <<"set nberr=0">>)
                      /\ \A i \in DOMAIN o : o[i] = <<"set nberr=0">> => i = a - 1

\* C3: a uniq line followed by a non-blank line that is no uniq line gets
\* the standard retry scaffold, and the following line is classified and
\* written by its own rule: its own iteration of the main loop handles it.
C3_LookaheadNotDropped ==
    (pc = "done" /\ result = "true") =>
        \A k \in LoneSteps :
            /\ StepOut(k) = <<StepLine(k) \o <<" 2>> %JOURNAL%">>>>
                            \o BlocRelance(steps[k].phase - 10, steps[k].phase - 10)
            /\ \A i \in StepAhead(k) : \E k2 \in DOMAIN steps : steps[k2].at = i

\* C4: for a uniq line followed by another uniq line the output holds one
\* intermediate label :STEP<phase-5>: the first line's success branch
\* jumps to it and its failure branch retries the current phase; the second
\* line follows the label and has a full retry scaffold that retries the
\* intermediate label; each of the two lines is written once.
C4_UniqPair ==
    \A k \in PairSteps :
        LET P == ToString(steps[k].phase - 10)
            I == ToString(steps[k].phase - 5)
            second == Strip(src.lines[steps[k].upto])
        IN  /\ StepAhead(k) = {steps[k].upto}
            /\ StepOut(k) =
                 << StepLine(k) \o <<" 2>> %JOURNAL%">>,
                    <<"if %errorlevel% EQU 0 goto STEP", I>>,
                    <<"if %errorlevel% NEQ 0 set ERR=Erreur execution %NOMTRAIT% & set /a nberr = %nberr%+1">>,
                    <<"if %nberr% EQU 1 ", "call %PF_SCRIPT%\\sendMail.cmd %num_phase% %nom_job%",
                      " & goto STEP", P>>,
                    <<"if %nberr% GTR 1 goto ERREUR">>,
                    <<":STEP", I>>,
                    second \o <<" 2>> %JOURNAL%">>,
                    <<"if %errorlevel% EQU 0 goto finSTEP", P>>,
                    <<"if %errorlevel% NEQ 0 set ERR=Erreur execution %NOMTRAIT% & set /a nberr = %nberr%+1">>,
                    <<"if %nberr% EQU 1 ", "call %PF_SCRIPT%\\sendMail.cmd %num_phase% %nom_job%",
                      " & goto STEP", I>>,
                    <<"if %nberr% GTR 1 goto ERREUR">>,
                    <<":finSTEP", P>>,
                    <<>> >>
            /\ \A k2 \in DOMAIN steps : steps[k2].at # steps[k].upto

C4_Witness ==
    /\ pc = "done"
    /\ result = "true"
    /\ PairSteps # {}
    /\ \E k \in PairSteps : steps[k].phase > ExpectedStart

\* iterations on an unbalanced loop-open line whose scan met end-of-input
\* before a line that is just ")"
UnclosedLoopSteps ==
    {k \in DOMAIN steps :
        LET l == StepLine(k)
        IN  /\ StartsWith(Lower(l), <<"f","o","r"," ">>)
            /\ Count(l, "(") # Count(l, ")")
            /\ \A i \in StepAhead(k) : Strip(src.lines[i]) # <<")">>}

\* C5: when an unbalanced loop-open line has no closing line ")" before
\* end-of-input, the run fails and leaves no output file.
C5_UnclosedLoopFails ==
    (pc = "done" /\ UnclosedLoopSteps # {}) => (result = "false" /\ ~destExists)

\* C6: whenever generer returns False the destination holds no truncated or
\* partial script: the file was not created, or it was discarded.
C6_NoPartialOutput ==
    (pc = "done" /\ result = "false") => ~destExists

\* C7: in every execution of the generated script, a scaffolded command's
\* first failure sends one notification and jumps back to its phase label,
\* and the scaffold reaches ERREUR only after that same command has failed
\* twice in a row.
C7_RetryPolicy ==
    /\ (ip \in DOMAIN out /\ out[ip] = <<"if %nberr% GTR 1 goto ERREUR">>) => consec >= 2
    /\ (ip \in DOMAIN out /\ out[ip] = <<":ERREUR">>
        /\ jumpFrom \in DOMAIN out /\ out[jumpFrom] = <<"if %nberr% GTR 1 goto ERREUR">>)
          => consec >= 2

(***************************************************************************)
(* generer as a function of the object it is called on, the source file    *)
(* and the JobConfig: what the run returns and leaves at the destination   *)
(* when no I/O error interrupts it.                                        *)
(***************************************************************************)
\* the main loop and _write_fin_job
RECURSIVE boucle_principale(_, _)
boucle_principale(ctx, f_in) ==
    LET r == lire_ligne(f_in, ctx.pos)
    IN  IF r.raised THEN AfterRead(ctx, r)
        ELSE IF r.eof THEN Write(AfterRead(ctx, r), FinJob)
        ELSE (LET c == traiter_ligne(AfterRead(ctx, r), r.line, f_in)
              IN  IF c.raised THEN c ELSE boucle_principale(c, f_in))

\* the with statement: [c, ret], ret being "true", "false" or "raise"
corps_generer(ctx, f_in, cfg) ==
    LET h == lire_entete([ctx EXCEPT !.out = <<>>, !.pos = 0, !.reads = <<>>, !.raised = FALSE],
                         f_in, cfg)
    IN  IF h.ret # "ok"
        THEN h
        ELSE (LET c == boucle_principale(h.c, f_in)
              IN  [c |-> c, ret |-> IF c.raised THEN "raise" ELSE "true"])

\* _generer_avec_encodage
generer_avec_encodage(ctx, source, cfg) ==
    corps_generer(ctx, [lines |-> source.lines, bad |-> source.bad, utf8 |-> FALSE], cfg)

\* generer, on an object whose fields are obj
generer(obj, source, cfg) ==
    IF ~source.exists
    THEN [result |-> "false", out |-> <<>>, destExists |-> FALSE]
    ELSE LET c0 == [phase |-> StartPhase(cfg, obj.phase), job_name |-> obj.job_name,
                    nom_job2 |-> obj.nom_job2, stats |-> InitStats,
                    out |-> <<>>, pos |-> 0, raised |-> FALSE, reads |-> <<>>]
             a == corps_generer(c0, [lines |-> source.lines, bad |-> source.bad,
                                     utf8 |-> TRUE], cfg)
             b == IF a.ret = "raise" THEN generer_avec_encodage(a.c, source, cfg) ELSE a
         IN  [result |-> b.ret, out |-> b.c.out, destExists |-> TRUE]

\* a JobGenerator as __init__ leaves it
NewJobGenerator ==
    [phase |-> InitPhase, job_name |-> <<>>, nom_job2 |-> <<>>, stats |-> InitStats]

\* C8: a run of generer on an object that has run before returns and
\* writes what a run on a new object returns and writes for the same
\* input file and the same caller metadata.
C8_Idempotent ==
    (pc = "done" /\ ~ioerr) =>
        LET fresh == generer(NewJobGenerator, src, config)
        IN  /\ result = fresh.result
            /\ destExists = fresh.destExists
            /\ out = fresh.out

C8_Witness ==
    /\ pc = "done"
    /\ runs = 2
    /\ result = "true"
    /\ MarkerSteps # {}
    /\ job_name # <<>>
    /\ phase0 \notin {InitPhase, ExpectedStart}

\* the output lines that are exactly l, and the only one of them
LinesEqual(l) == {i \in DOMAIN out : out[i] = l}
TheLine(l) == CHOOSE i \in LinesEqual(l) : TRUE

\* C9: in a run whose source has a non-blank line and that meets no I/O
\* error the trailer is written once, after the output of the last body
\* line and last of all: the PHASE=99 marker, goto FIN, :ERREUR with the
\* exit 8 path, :FIN with exit 0, in this order.
C9_Trailer ==
    /\ (pc = "done" /\ ~ioerr /\ src.exists
        /\ \E i \in DOMAIN src.lines : \E j \in DOMAIN src.lines[i] :
               src.lines[i][j] \notin Whitespace)
          => /\ result = "true"
             /\ \A l \in { <<"set PHASE=99 - Fin du job">>, <<"goto FIN">>, <<":ERREUR">>,
                           <<"%EXIT% 8">>, <<":FIN">>, <<"%EXIT% 0">> } :
                   Cardinality(LinesEqual(l)) = 1
             /\ TheLine(<<"set PHASE=99 - Fin du job">>) < TheLine(<<"goto FIN">>)
             /\ TheLine(<<"goto FIN">>) < TheLine(<<":ERREUR">>)
             /\ TheLine(<<":ERREUR">>) < TheLine(<<"%EXIT% 8">>)
             /\ TheLine(<<"%EXIT% 8">>) < TheLine(<<":FIN">>)
             /\ TheLine(<<":FIN">>) + 1 = TheLine(<<"%EXIT% 0">>)
             /\ TheLine(<<"%EXIT% 0">>) + 1 = Len(out)
             /\ \A k \in DOMAIN steps : steps[k].last < TheLine(<<"set PHASE=99 - Fin du job">>)
    /\ pc \in {"idle", "body", "decode"}
          => \A i \in DOMAIN out :
                 out[i] \notin { <<"set PHASE=99 - Fin du job">>, <<"goto FIN">>,
                                 <<":ERREUR">>, <<":FIN">> }

C9_Witness ==
    /\ pc = "done"
    /\ result = "true"
    /\ Cardinality(MarkerSteps) >= 2
    /\ Len(steps) >= 3

\* the raw lines that are not blank, and the i-th of them
NonBlankIdx ==
    {i \in DOMAIN src.lines : \E j \in DOMAIN src.lines[i] : src.lines[i][j] \notin Whitespace}
NthNonBlank(i) ==
    CHOOSE j \in NonBlankIdx : Cardinality({k \in NonBlankIdx : k < j}) = i - 1

\* t is raw without its leading and trailing whitespace
IsTrimOf(t, raw) ==
    /\ t # <<>>
    /\ t[1] \notin Whitespace
    /\ t[Len(t)] \notin Whitespace
    /\ \E a \in 0..(Len(raw) - Len(t)) :
          /\ SubSeq(raw, a + 1, a + Len(t)) = t
          /\ \A i \in 1..a : raw[i] \in Whitespace
          /\ \A i \in (a + Len(t) + 1)..Len(raw) : raw[i] \in Whitespace

\* C10: over all its callers, the line reader returns the non-blank lines
\* of the source, trimmed, in source order, each once, never an empty
\* line, and end-of-input with no line on every call after the last line.
C10_LineReader ==
    \A i \in DOMAIN reads :
        IF i <= Cardinality(NonBlankIdx)
        THEN /\ ~reads[i].eof
             /\ IsTrimOf(reads[i].line, src.lines[NthNonBlank(i)])
        ELSE reads[i] = [line |-> None, eof |-> TRUE]

C10_Witness ==
    /\ pc = "done"
    /\ Len(reads) >= Cardinality(NonBlankIdx) + 2
    /\ Cardinality(NonBlankIdx) < Len(src.lines)
    /\ \E i \in 5..Cardinality(NonBlankIdx) : reads[i].line # src.lines[NthNonBlank(i)]
    /\ UniqSteps # {}

\* the i-th non-blank line of the source, trimmed
LigneUtile(i) == Strip(src.lines[NthNonBlank(i)])

\* the header of a finished run: the run fails when the source has no
\* non-blank line; otherwise it succeeds and the author, title and
\* description fields hold the second, third and fourth non-blank lines,
\* an absent author being written as auteurAbsent and an absent title or
\* description as the empty string
HeaderFields(auteurAbsent) ==
    (pc = "done" /\ ~ioerr /\ src.exists) =>
        LET n == Cardinality(NonBlankIdx)
        IN  IF n = 0
            THEN result = "false"
            ELSE /\ result = "true"
                 /\ job_name = LigneUtile(1)
                 /\ out[6] = <<"rem #-- Auteur  : ">> \o (IF n >= 2 THEN LigneUtile(2) ELSE auteurAbsent)
                 /\ out[8] = <<"rem #-- Objet   : ">> \o (IF n >= 3 THEN LigneUtile(3) ELSE <<>>)
                 /\ out[9] = <<"rem #--           ">> \o (IF n >= 4 THEN LigneUtile(4) ELSE <<>>)

\* C11 as stated: a source with no first non-blank line makes the run fail;
\* when the author, title or description line is absent the run succeeds
\* and the missing field is written as the empty string.
C11_HeaderEmptyDefaults == HeaderFields(<<>>)

\* C11 as amended: a source with no first non-blank line makes the run fail;
\* when the author line is absent the run succeeds and the author field is
\* written as UNKNOWN; an absent title or description is written as the
\* empty string.
C11_HeaderDefaults == HeaderFields(<<"U","N","K","N","O","W","N">>)

C11_Witness ==
    /\ pc = "done"
    /\ result = "true"
    /\ Cardinality(NonBlankIdx) = 1
    /\ out[6] = <<"rem #-- Auteur  : ", "U","N","K","N","O","W","N">>

(***************************************************************************)
(* The end-to-end scenario of the specification: the source                *)
(* job.bat / JDOE / Daily Extract / Runs nightly extract followed by body  *)
(* lines among the scenario's phase marker, the same marker in the form    *)
(* _traiter_ligne recognises, and the scenario's command.                  *)
(***************************************************************************)
MaxBodyScenario == 3

S_JOB == <<"j","o","b",".","b","a","t">>
S_AUTEUR == <<"J","D","O","E">>
S_LIB == <<"D","a","i","l","y"," ","E","x","t","r","a","c","t">>
S_DESC == <<"R","u","n","s"," ","n","i","g","h","t","l","y"," ","e","x","t","r","a","c","t">>
S_MARKER == <<"r","e","m"," ","#","-","-","E","X","T","R","A","C","T","-","E","x","t","r","a","c","t","i","o","n"," ","p","h","a","s","e">>
S_MARKER_CODE == <<"r","e","m"," ","-","E","X","T","R","A","C","T","-","E","x","t","r","a","c","t","i","o","n"," ","p","h","a","s","e">>
S_EXTRACT == <<"%","F","M","_","P","R","O","G","%","\\","e","x","t","r","a","c","t",".","e","x","e">>

ScenarioVocab == {S_MARKER, S_MARKER_CODE, S_EXTRACT}

ScenarioSources ==
    { [exists |-> TRUE, lines |-> <<S_JOB, S_AUTEUR, S_LIB, S_DESC>> \o b, bad |-> 0] :
          b \in BoundedSeq(ScenarioVocab, MaxBodyScenario) }

\* the caller asks for start phase 10, or leaves the default
ScenarioConfigs ==
    [phase_depart : {0, 10}, date_jour : {"01/01/2024"}, username : {"jdoe"}]

InitScenario == InitFrom(ScenarioSources, ScenarioConfigs)

NextScenario ==
    \/ GenererOuvrir
    \/ TraiterCorps
    \/ Terminer

SpecScenario == InitScenario /\ [][NextScenario]_vars

\* the first output line that is l, 0 when there is none
First(l) ==
    IF LinesEqual(l) = {} THEN 0 ELSE CHOOSE i \in LinesEqual(l) : \A j \in LinesEqual(l) : i <= j

\* the suffixes the templates use to redirect a command to the journal
Redirections == {" 2>> %JOURNAL%", " >> %JOURNAL% 2>&1 ", " >> %JOURNAL% 2>&1"}

\* C12: for the source job.bat / JDOE / Daily Extract / Runs nightly extract /
\* rem #--EXTRACT-Extraction phase / %FM_PROG%\extract.exe with start phase
\* 10 the output holds, in order: the header naming job and JDOE, the
\* initialisation block, :STEP10, set NOMTRAIT=EXTRACT, the skl_infojob
\* line, the extract command with a journal redirect followed by the plain
\* fail-fast check and no retry scaffold, and the trailer ending with :FIN.
C12_Scenario ==
    (pc = "done" /\ src.lines = <<S_JOB, S_AUTEUR, S_LIB, S_DESC, S_MARKER, S_EXTRACT>>) =>
        LET init == Initialisation(<<"j","o","b">>)
            step == First(<<":STEP", "10">>)
            trt == First(<<"set NOMTRAIT=">> \o <<"E","X","T","R","A","C","T">>)
            info == First(<<LIGNE_INF_1>>)
            cmds == {i \in DOMAIN out : \E r \in Redirections : out[i] = S_EXTRACT \o <<r>>}
        IN  /\ result = "true"
            /\ out[1] = <<"@echo off">>
            /\ out[4] = <<"rem #-- Nom     : ", "j","o","b">>
            /\ out[6] = <<"rem #-- Auteur  : ">> \o S_AUTEUR
            /\ SubSeq(out, 20, 19 + Len(init)) = init
            /\ 19 + Len(init) < step
            /\ step < trt
            /\ trt < info
            /\ \E c \in cmds :
                  /\ info < c
                  /\ c + 1 \in DOMAIN out
                  /\ out[c + 1] = <<LIGNE_ERR_1>>
                  /\ c + 1 < First(<<":FIN">>)
            /\ \A i \in DOMAIN out : out[i] # <<"if %nberr% GTR 1 goto ERREUR">>
            /\ out[Len(out) - 2] = <<":FIN">>

\* C13: a source with its four header lines and no body line gives a
\* successful run whose output is the complete header, the initialisation
\* block unless the job name holds `.cmd`, and right after it the complete
\* trailer, with no :STEP label; the statistics show no phase and no
\* command.
C13_ZeroBody ==
    (pc = "done" /\ ~ioerr /\ src.exists /\ Cardinality(NonBlankIdx) = 4) =>
        LET nom == Split(LigneUtile(1), ".")[1]
        IN  /\ result = "true"
            /\ out = Entete(nom, config.date_jour, LigneUtile(2), LigneUtile(3),
                            LigneUtile(4), config.username)
                     \o (IF Contains(LigneUtile(1), <<".","c","m","d">>)
                         THEN <<>>
                         ELSE Initialisation(nom))
                     \o FinJob
            /\ \A i \in DOMAIN out : out[i] = <<>> \/ out[i][1] # ":STEP"
            /\ stats.phases_generees = 0
            /\ stats.commandes_traitees = 0

C13_Witness ==
    /\ pc = "done"
    /\ result = "true"
    /\ Cardinality(NonBlankIdx) = 4
    /\ Len(src.lines) > 4
    /\ job_name = L_JOB_BAT
    /\ runs = 2

(***************************************************************************)
(* Body lines for the classifier: lines that match one rule of             *)
(* _traiter_ligne, several, or none.                                       *)
(***************************************************************************)
MaxBodyLignes == 2

L_GREP == <<"%","P","F","_","E","X","E","%","g","r","e","p">>
L_REM_PLAIN == <<"r","e","m"," ","x">>
L_REM_ONE == <<"r","e","m"," ","-","a">>
L_REM_EXE == <<"R","E","M"," ","%","P","F","_","E","X","E","%","x">>
L_FM_EXE == <<"%","F","M","_","P","R","O","G","%","%","P","F","_","E","X","E","%">>
L_ECHO_CALL == <<"e","c","h","o"," ","c","a","l","l">>
L_CALL == <<"c","a","l","l"," ","x">>
L_MOVE == <<"m","o","v","e"," ","a"," ","b">>
L_MOVE_CALL == <<"m","o","v","e"," ","c","a","l","l"," ","b">>
L_COPY_SHORT == <<"c","o","p","y"," ","a">>
L_DEL == <<"d","e","l"," ","a">>
L_DEL_CALL == <<"d","e","l"," ","c","a","l","l">>
L_DEL_PERL == <<"d","e","l"," ","%","P","E","R","L","%">>
L_PERL == <<"%","P","E","R","L","%","x">>
L_FORFILES == <<"f","o","r","f","i","l","e","s">>
L_OPAQUE == <<"x","-","y">>

LignesVocab ==
    {L_PHASE, L_GREP, L_REM_PLAIN, L_REM_ONE, L_REM_EXE, L_FM_EXE, L_ECHO_CALL, L_CALL,
     L_MOVE, L_MOVE_CALL, L_COPY_SHORT, L_DEL, L_DEL_CALL, L_DEL_PERL, L_PERL,
     L_FORFILES, L_FOR, L_PAREN, L_OPAQUE}

InitLignes == InitWith(Sources(LignesVocab, MaxBodyLignes))

SpecLignes == InitLignes /\ [][Next]_vars

\* iterations on an external-tool line that holds grep
GrepSteps ==
    {k \in DOMAIN steps :
        LET l == StepLine(k)
        IN  /\ ~StartsWith(Lower(l), <<"r","e","m">>)
            /\ ~Contains(l, <<"%","F","M","_","P","R","O","G","%">>)
            /\ Contains(l, <<"%","P","F","_","E","X","E">>)
            /\ Contains(l, <<"g","r","e","p">>)}

\* C14: for an external-tool line that holds grep the check written uses
\* `if %errorlevel% LSS 2 goto finSTEP<P>` as its success branch and
\* `if %errorlevel% GTR 1 ...` as its failure branch, and no EQU 0 / NEQ 0
\* line is written for that line.
C14_GrepChecks ==
    \A k \in GrepSteps :
        LET o == StepOut(k)
        IN  /\ Len(o) >= 3
            /\ o[1] = StepLine(k) \o <<" 2>> %JOURNAL%">>
            /\ o[2] = <<"if %errorlevel% LSS 2 goto finSTEP", ToString(steps[k].phase - 10)>>
            /\ o[3] = <<"if %errorlevel% GTR 1 set ERR=Erreur execution %NOMTRAIT% & set /a nberr = %nberr%+1">>
            /\ \A i \in DOMAIN o :
                  \/ o[i] = <<>>
                  \/ o[i][1] \notin
                        { "if %errorlevel% EQU 0 goto finSTEP",
                          "if %errorlevel% EQU 0 goto STEP",
                          "if %errorlevel% NEQ 0 set ERR=Erreur execution %NOMTRAIT% & set /a nberr = %nberr%+1",
                          "if %errorlevel% NEQ 0 set ERR=Erreur execution %NOMTRAIT% & goto ERREUR" }

C14_Witness ==
    /\ pc = "done"
    /\ result = "true"
    /\ \E k \in GrepSteps : steps[k].phase > ExpectedStart

\* the classification rules in the order the specification gives them:
\* comment or phase marker, managed command, external tool, file
\* enumeration, loop open, simple directive, call or path literal, move or
\* copy, delete, notifier
ReglesSpec ==
    <<"rem", "fm_prog", "pf_exe", "forfiles", "for", "simple", "call", "mouvement",
      "del", "perl">>

\* iterations on a line that matches no classification rule
OpaqueSteps ==
    {k \in DOMAIN steps : \A i \in DOMAIN ReglesSpec : ~Teste(ReglesSpec[i], StepLine(k))}

\* C15: no body line makes the run fail: a line that matches no
\* classification rule is written as it is, as one output line, nothing
\* else changes, and the run goes on with the next line up to the trailer.
C15_OpaqueVerbatim ==
    /\ \A k \in OpaqueSteps :
          /\ StepOut(k) = <<StepLine(k)>>
          /\ steps[k].upto = steps[k].at
          /\ steps[k].next = steps[k].phase
    /\ (pc = "done" /\ ~ioerr /\ src.exists /\ NonBlankIdx # {}) =>
          /\ result = "true"
          /\ \A i \in NonBlankIdx :
                Cardinality({j \in NonBlankIdx : j < i}) >= 4 =>
                    \E k \in DOMAIN steps : i \in steps[k].at..steps[k].upto

C15_Witness ==
    /\ pc = "done"
    /\ result = "true"
    /\ \E k \in OpaqueSteps :
          /\ StepLine(k) = L_OPAQUE
          /\ k < Len(steps)
    /\ \E k \in DOMAIN steps : StepLine(k) = L_COPY_SHORT

(***************************************************************************)
(* Two calls of generer in progress at once on one JobGenerator (the one   *)
(* object a FileTransferManager keeps in self.generator), each on its own  *)
(* input and output files.  The fields of the object are the same for      *)
(* both; the locals of each call are its own.  Basculer is a thread        *)
(* switch between two iterations.                                          *)
(***************************************************************************)
MaxBodyConc == 2

ConcVocab == {L_PHASE, L_EXE}

ConcSources ==
    { [exists |-> TRUE, lines |-> <<job, L_AUTEUR, L_LIB, L_DESC>> \o b, bad |-> 0] :
          job \in {L_JOB_BAT, L_JOB_CMD}, b \in BoundedSeq(ConcVocab, MaxBodyConc) }

\* the locals of the call that is running
Locals ==
    [config |-> config, src |-> src, utf8 |-> utf8, pos |-> pos, out |-> out,
     destExists |-> destExists, pc |-> pc, result |-> result, reads |-> reads,
     steps |-> steps, ioerr |-> ioerr, phase0 |-> phase0]

InitConc ==
    /\ InitGen(ConcSources, Configs)
    /\ ExecInit
    /\ RouteInit
    /\ XferInit
    /\ autre \in { [config |-> c, src |-> s, utf8 |-> TRUE, pos |-> 0, out |-> <<>>,
                    destExists |-> FALSE, pc |-> "idle", result |-> "none",
                    reads |-> <<>>, steps |-> <<>>, ioerr |-> FALSE,
                    phase0 |-> InitPhase] : c \in Configs, s \in ConcSources }

\* the other thread runs: its locals come in, those of this one go out
Basculer ==
    /\ autre.pc # "absent"
    /\ autre' = Locals
    /\ config' = autre.config
    /\ src' = autre.src
    /\ utf8' = autre.utf8
    /\ pos' = autre.pos
    /\ out' = autre.out
    /\ destExists' = autre.destExists
    /\ pc' = autre.pc
    /\ result' = autre.result
    /\ reads' = autre.reads
    /\ steps' = autre.steps
    /\ ioerr' = autre.ioerr
    /\ phase0' = autre.phase0
    /\ UNCHANGED <<phase, job_name, nom_job2, stats, runs>>
    /\ UNCHANGED <<execVars, routeVars, xferVars>>

NextConc ==
    \/ GenererOuvrir
    \/ TraiterCorps
    \/ Terminer
    \/ Basculer

SpecConc == InitConc /\ [][NextConc]_vars

\* C16: of two runs on distinct input and output files whose steps are
\* interleaved, each returns and writes what it returns and writes when it
\* runs alone.
C16_NoSharedState ==
    (pc = "done" /\ autre.pc # "absent") =>
        LET alone == generer(NewJobGenerator, src, config)
        IN  /\ result = alone.result
            /\ out = alone.out

(***************************************************************************)
(* determiner_dossier_serveur: the server folder of a file, from its name  *)
(* and its path in the Git repository.                                     *)
(***************************************************************************)
\* s.endswith(p)
EndsWith(s, p) == Len(s) >= Len(p) /\ SubSeq(s, Len(s) - Len(p) + 1, Len(s)) = p

\* s.replace("\\", "/")
ReplaceBackslash(s) == [i \in 1..Len(s) |-> IF s[i] = "\\" THEN "/" ELSE s[i]]

\* [s for s in chemin_lower.split('/') if s]
Segments(chemin_lower) == SelectSeq(Split(chemin_lower, "/"), LAMBDA seg : seg # <<>>)

\* the folder a first segment names, "none" when it names none
DossierDe(segment) ==
    CASE segment = <<"s","c","r","i","p","t">> -> "script"
      [] segment = <<"j","o","b">> -> "job"
      [] segment = <<"p","a","r","a","m">> -> "param"
      [] OTHER -> "none"

determiner_dossier_serveur(nom, chemin) ==
    LET nom_lower == Lower(nom)
        chemin_lower == ReplaceBackslash(Lower(chemin))
        segments == Segments(chemin_lower)
    IN  IF Contains(nom_lower, <<"_","a","p","p","l","i">>)
           \/ Contains(nom_lower, <<"i","n","i","t","_","v","a","r">>)
        THEN "param"
        ELSE IF chemin_lower # <<>> /\ segments # <<>> /\ DossierDe(segments[1]) # "none"
        THEN DossierDe(segments[1])
        ELSE IF EndsWith(nom_lower, <<".","c","m","d">>)
        THEN "script"
        ELSE IF EndsWith(nom_lower, <<".","b","a","t">>)
        THEN "job"
        ELSE "job"

NomsFichier ==
    { <<"a",".","c","m","d">>, <<"a",".","b","a","t">>, <<"a","_","a","p","p","l","i",".","b","a","t">>,
      <<"i","n","i","t","_","v","a","r",".","c","m","d">>, <<"a",".","t","x","t">>,
      <<"A",".","C","M","D">>, <<"a","_","A","P","P","L","I",".","b","a","t">> }

Chemins ==
    { <<>>, <<"j","o","b","/","a">>, <<"s","c","r","i","p","t","/","a">>, <<"x","/","j","o","b","/","a">>,
      <<"J","O","B","\\","a">>, <<"/","s","c","r","i","p","t","/","a">>, <<"j","o","b">>, <<"x">> }

InitDossier ==
    /\ InitGen({[exists |-> FALSE, lines |-> <<>>, bad |-> 0]},
               {[phase_depart |-> 0, date_jour |-> "", username |-> ""]})
    /\ ExecInit
    /\ autre = Absent
    /\ nom_fichier \in NomsFichier
    /\ chemin_relatif_git \in Chemins
    /\ dossier = "none"
    /\ XferInit

\* the call of determiner_dossier_serveur returns
Router ==
    /\ dossier = "none"
    /\ dossier' = determiner_dossier_serveur(nom_fichier, chemin_relatif_git)
    /\ UNCHANGED <<nom_fichier, chemin_relatif_git>>
    /\ UNCHANGED <<genVars, execVars, concVars, xferVars>>

NextDossier ==
    \/ Router

SpecDossier == InitDossier /\ [][NextDossier]_vars

\* the first segment of the Git path, <<>> when the path has none
PremierSegment ==
    LET segments == Segments(ReplaceBackslash(Lower(chemin_relatif_git)))
    IN  IF segments = <<>> THEN <<>> ELSE segments[1]

\* C17: the Git path has priority: when its first segment is job or script
\* the folder is that segment whatever the file name; only otherwise do the
\* special-file rule (_appli, init_var: param) and the extension (.cmd:
\* script, .bat: job) decide.
C17_GitPathFirst ==
    dossier # "none" =>
        LET nom_lower == Lower(nom_fichier)
        IN  IF PremierSegment \in { <<"j","o","b">>, <<"s","c","r","i","p","t">> }
            THEN dossier = DossierDe(PremierSegment)
            ELSE IF Contains(nom_lower, <<"_","a","p","p","l","i">>)
                    \/ Contains(nom_lower, <<"i","n","i","t","_","v","a","r">>)
            THEN dossier = "param"
            ELSE IF EndsWith(nom_lower, <<".","c","m","d">>)
            THEN dossier = "script"
            ELSE EndsWith(nom_lower, <<".","b","a","t">>) => dossier = "job"

\* iterations on a line that starts with rem and is no phase marker
CommentSteps ==
    {k \in DOMAIN steps :
        /\ StartsWith(Lower(StepLine(k)), <<"r","e","m">>)
        /\ ~IsPhaseMarker(StepLine(k))
        /\ ~IsSpecMarker(StepLine(k))}

\* C18: a body line whose first three characters are rem and that is no
\* phase marker is written to the output as it is, also when it holds fewer
\* than two hyphens.
C18_CommentVerbatim ==
    \A k \in CommentSteps : StepOut(k) = <<StepLine(k)>>

\* the context in which iteration k called _traiter_ligne, with nothing
\* written yet, and what the template of a rule writes for its line
CtxAvant(k) ==
    [phase |-> steps[k].phase, job_name |-> job_name, nom_job2 |-> nom_job2,
     stats |-> InitStats, out |-> <<>>, pos |-> steps[k].at, raised |-> FALSE,
     reads |-> <<>>]
SortieDe(regle, k) == Gabarit(regle, CtxAvant(k), StepLine(k), F_in).out

\* the first rule of ordre, from rank `from` on, that line l matches,
\* "opaque" when there is none
PremiereRegle(ordre, l, from) ==
    LET m == {i \in from..Len(ordre) : Teste(ordre[i], l)}
    IN  IF m = {} THEN "opaque" ELSE ordre[CHOOSE i \in m : \A j \in m : i <= j]

\* C19: among the lines no earlier rule takes, a line is in the call or
\* path-literal category (the line, then one fail-fast check) only if it
\* begins with call or holds `program files`; a line that holds the letters
\* call elsewhere is handled by its own later rule (move or copy, delete,
\* notifier, opaque).
C19_CallCategory ==
    \A k \in DOMAIN steps :
        LET l == StepLine(k)
            ll == Lower(l)
        IN  PremiereRegle(SubSeq(ReglesSpec, 1, 6), l, 1) = "opaque" =>
                IF \/ StartsWith(ll, <<"c","a","l","l">>)
                   \/ Contains(ll, <<"p","r","o","g","r","a","m"," ","f","i","l","e","s">>)
                THEN StepOut(k) = <<l, <<LIGNE_ERR_1>>, <<>>>>
                ELSE StepOut(k) = SortieDe(PremiereRegle(ReglesSpec, l, 8), k)

\* C20: classification is first match wins in a fixed order: every body
\* line, also one that matches several rules, is written by one template,
\* that of the earliest rule it matches in the order comment or phase
\* marker, managed command, external tool, file enumeration, loop open,
\* simple directive, call or path literal, move or copy, delete, notifier,
\* opaque; the phase counter moves as that template moves it.
C20_FirstMatchWins ==
    \A k \in DOMAIN steps :
        LET regle == PremiereRegle(ReglesSpec, StepLine(k), 1)
            c == Gabarit(regle, CtxAvant(k), StepLine(k), F_in)
        IN  /\ StepOut(k) = c.out
            /\ steps[k].next = c.phase
            /\ steps[k].upto = c.pos

\* a finished run with a line that is a simple directive and holds call,
\* written by the simple-directive template, and a line that holds both
\* %FM_PROG% and %PF_EXE, written by the managed-command template
C20_Witness ==
    /\ pc = "done"
    /\ result = "true"
    /\ \E k \in DOMAIN steps :
          /\ StepLine(k) = L_ECHO_CALL
          /\ Teste("simple", StepLine(k))
          /\ Teste("call", StepLine(k))
          /\ StepOut(k) = <<L_ECHO_CALL>>
    /\ \E k \in DOMAIN steps :
          /\ StepLine(k) = L_FM_EXE
          /\ StepOut(k) = <<L_FM_EXE, <<LIGNE_ERR_1>>, <<>>>>

(***************************************************************************)
(* Body lines for the managed commands (%FM_PROG%): the retry family, the  *)
(* pimport lines, and the other lines with or without a test code in       *)
(* columns 25..28; with them a phase marker and external-tool lines.       *)
(***************************************************************************)
MaxBodyGere == 2

\* the line ends with the code, in columns 25..28 (29 characters)
L_BAL_29 == <<"%","F","M","_","P","R","O","G","%","b","a","l",".","e","x","e"," ","-","t"," ","a"," ","b"," ","c","5","1","0","0">>
\* the code in columns 25..28 with one character after it (30 characters)
L_BAL_30 == <<"%","F","M","_","P","R","O","G","%","b","a","l",".","e","x","e"," ","-","t"," ","a"," ","b"," ","c","5","1","0","1","x">>
\* another number in columns 25..28
L_BAL_AUTRE == <<"%","F","M","_","P","R","O","G","%","b","a","l",".","e","x","e"," ","-","t"," ","a"," ","b"," ","c","5","1","0","3","x">>
\* a code in columns 26..29
L_BAL_DECALE == <<"%","F","M","_","P","R","O","G","%","b","a","l",".","e","x","e"," ","-","t"," ","a"," ","b"," ","c","x","5","1","0","2","x">>
L_FM_COURT == <<"%","F","M","_","P","R","O","G","%","x">>
L_FM_DCHAIN == <<"%","F","M","_","P","R","O","G","%","d","c","h","a","i","n">>
\* a retry-family line with a code in columns 25..28
L_FM_DCHAIN_CODE == <<"%","F","M","_","P","R","O","G","%","d","c","h","a","i","n","a"," ","b"," ","c"," ","d"," ","e"," ","5","1","0","0","x">>
L_FM_PIMPORT == <<"%","F","M","_","P","R","O","G","%","p","i","m","p","o","r","t">>
L_FM_PIMPORT_V == <<"%","F","M","_","P","R","O","G","%","p","i","m","p","o","r","t",",","a">>

GereVocab ==
    {L_PHASE, L_BAL_29, L_BAL_30, L_BAL_AUTRE, L_BAL_DECALE, L_FM_COURT, L_FM_DCHAIN,
     L_FM_DCHAIN_CODE, L_FM_PIMPORT, L_FM_PIMPORT_V, L_EXE, L_UNIQ, L_GREP}

InitGere == InitWith(Sources(GereVocab, MaxBodyGere))

SpecGere == InitGere /\ [][Next]_vars

\* iterations on a managed line that is neither in the retry family nor a
\* pimport line
BalanceSteps ==
    {k \in DOMAIN steps :
        LET l == StepLine(k)
        IN  /\ ~StartsWith(Lower(l), <<"r","e","m">>)
            /\ Contains(l, <<"%","F","M","_","P","R","O","G","%">>)
            /\ \A cmd \in CMDS_RELANCE : ~Contains(l, cmd)
            /\ ~Contains(l, <<"p","i","m","p","o","r","t">>)}

\* characters 25..28 (0-based) of the line are one of the three test codes
HasTestCode(l) ==
    /\ Len(l) >= 29
    /\ SubSeq(l, 26, 29) \in { <<"5","1","0","0">>, <<"5","1","0","1">>, <<"5","1","0","2">> }

\* the first fragments of the lines of a retry scaffold
ScaffoldHeads ==
    { "if %errorlevel% EQU 0 goto finSTEP", "if %errorlevel% EQU 0 goto STEP",
      "if %errorlevel% NEQ 0 set ERR=Erreur execution %NOMTRAIT% & set /a nberr = %nberr%+1",
      "if %nberr% EQU 1 ", "if %nberr% GTR 1 goto ERREUR", ":finSTEP", ":STEP" }

\* C21: for a managed line that is neither in the retry family nor a pimport
\* line, the GTR fail-fast check is written iff characters 25..28 (0-based)
\* of the line are one of the codes 5100, 5101, 5102; otherwise the NEQ
\* fail-fast check is written; no retry scaffold is written in either case.
C21_BalanceTest ==
    \A k \in BalanceSteps :
        LET l == StepLine(k)
            o == StepOut(k)
        IN  /\ Len(o) >= 2
            /\ o[1] = l
            /\ o[2] = IF HasTestCode(l) THEN <<LIGNE_ERR_2>> ELSE <<LIGNE_ERR_1>>
            /\ \A i \in DOMAIN o : i > 1 => (o[i] = <<>> \/ o[i][1] \notin ScaffoldHeads)
            /\ \A i \in DOMAIN o : i > 2 => o[i] \notin {<<LIGNE_ERR_1>>, <<LIGNE_ERR_2>>}

\* iterations on a managed or external-tool line that wrote a retry scaffold
ScaffoldSteps ==
    {k \in DOMAIN steps :
        LET l == StepLine(k)
            o == StepOut(k)
        IN  /\ ~StartsWith(Lower(l), <<"r","e","m">>)
            /\ \/ Contains(l, <<"%","F","M","_","P","R","O","G","%">>)
               \/ Contains(l, <<"%","P","F","_","E","X","E">>)
            /\ \E i \in DOMAIN o : o[i] # <<>> /\ o[i][1] = ":finSTEP"}

\* the phase-marker iterations before iteration k
MarkersBefore(k) == {j \in MarkerSteps : j < k}

\* C22: every retry scaffold written for a managed or external-tool line
\* uses P = phase counter - 10 for its `goto STEP<P>` retry target and for
\* its `finSTEP<P>` label, and P is the number of the phase most recently
\* opened by a phase-marker line of the same run.
C22_ScaffoldPhase ==
    \A k \in ScaffoldSteps :
        LET P == steps[k].phase - 10
            o == StepOut(k)
            prev == MarkersBefore(k)
        IN  /\ \A i \in DOMAIN o :
                  o[i] # <<>> =>
                      /\ o[i][1] \in { ":finSTEP", "if %errorlevel% EQU 0 goto finSTEP",
                                       "if %errorlevel% LSS 2 goto finSTEP" }
                            => o[i][2] = ToString(P)
                      /\ o[i][1] = "if %nberr% EQU 1 " => o[i][4] = ToString(P)
            /\ prev # {}
            /\ \A j \in prev :
                  (\A j2 \in prev : j2 <= j) =>
                      <<":STEP", ToString(P)>> \in {o2 : o2 \in {out[i] : i \in steps[j].first..steps[j].last}}

(***************************************************************************)
(* Body lines for the loop blocks: loop-open lines with unbalanced and     *)
(* with balanced parentheses, the closing line, a comment, a directive and *)
(* a blank line.                                                           *)
(***************************************************************************)
MaxBodyBoucle == 5

L_FOR_BAL == <<"f","o","r"," ","%","i"," ","i","n"," ","(","a",")"," ","d","o"," ","x">>

BoucleVocab == {L_FOR, L_FOR_BAL, L_PAREN, L_REM_PLAIN, L_ECHO, L_BLANK}

BoucleSources ==
    { [exists |-> TRUE, lines |-> <<L_JOB_BAT, L_AUTEUR, L_LIB, L_DESC>> \o b, bad |-> 0] :
          b \in BoundedSeq(BoucleVocab, MaxBodyBoucle) }

BoucleConfigs ==
    [phase_depart : {0}, date_jour : {"01/01/2024"}, username : {"jdoe"}]

InitBoucle == InitFrom(BoucleSources, BoucleConfigs)

NextBoucle ==
    \/ GenererOuvrir
    \/ TraiterCorps
    \/ Terminer

SpecBoucle == InitBoucle /\ [][NextBoucle]_vars

\* iterations on a loop-open line
LoopSteps ==
    {k \in DOMAIN steps :
        LET l == StepLine(k)
        IN  /\ ~StartsWith(Lower(l), <<"r","e","m">>)
            /\ ~Contains(l, <<"%","F","M","_","P","R","O","G","%">>)
            /\ ~Contains(l, <<"%","P","F","_","E","X","E">>)
            /\ ~Contains(Lower(l), <<"f","o","r","f","i","l","e","s">>)
            /\ \/ StartsWith(Lower(l), <<"f","o","r"," ">>)
               \/ StartsWith(Lower(l), <<"f","o","r","%","%">>)}

\* the raw lines after line i that are just ")"
ClosingAfter(i) == {c \in (i + 1)..Len(src.lines) : Strip(src.lines[c]) = <<")">>}

\* the first of them
FirstClosing(i) == CHOOSE c \in ClosingAfter(i) : \A d \in ClosingAfter(i) : c <= d

\* what the scan is to write for the raw lines i..c-1: nothing for a blank
\* line, a comment as it is, another line with a journal redirect and then
\* the GTR 1 abort check
RECURSIVE BlockExpected(_, _)
BlockExpected(i, c) ==
    IF i >= c
    THEN <<>>
    ELSE LET t == Strip(src.lines[i])
             w == IF t = <<>>
                  THEN <<>>
                  ELSE IF StartsWith(Lower(t), <<"r","e","m">>)
                       THEN <<t>>
                       ELSE << t \o <<" 2>> %JOURNAL%">>,
                               <<"if %errorlevel% GTR 1 set ERR=Erreur execution %NOMTRAIT% & goto ERREUR">> >>
         IN  w \o BlockExpected(i + 1, c)

\* C23: after an unbalanced loop-open line the scanner consumes the lines up
\* to and including the first line equal to ")": each consumed comment line
\* is written as it is, each other consumed line with a journal redirect and
\* then the GTR 1 abort check, the ")" line as it is; it ends the scan and
\* the main loop resumes with the line after it.  A loop-open line with
\* balanced parentheses consumes no further line.
C23_LoopScan ==
    \A k \in LoopSteps :
        LET l == StepLine(k)
            at == steps[k].at
        IN  IF Count(l, "(") = Count(l, ")")
            THEN /\ steps[k].upto = at
                 /\ StepOut(k) = <<l>>
            ELSE ClosingAfter(at) # {} =>
                    LET c == FirstClosing(at)
                    IN  /\ steps[k].upto = c
                        /\ StepOut(k) = <<l>> \o BlockExpected(at + 1, c) \o << <<")">> >>
                        /\ \A k2 \in DOMAIN steps : k2 # k => steps[k2].at \notin at..c
                        /\ k + 1 \in DOMAIN steps =>
                              /\ steps[k + 1].at > c
                              /\ \A i \in (c + 1)..(steps[k + 1].at - 1) :
                                    Strip(src.lines[i]) = <<>>
                        /\ (pc = "done" /\ k = Len(steps)) =>
                              \A i \in (c + 1)..Len(src.lines) : Strip(src.lines[i]) = <<>>

\* a block with a comment and a command in it was scanned, and the main
\* loop handled the line after its closing line
C23_Witness ==
    /\ pc = "done"
    /\ result = "true"
    /\ \E k \in LoopSteps :
          /\ Count(StepLine(k), "(") # Count(StepLine(k), ")")
          /\ ClosingAfter(steps[k].at) # {}
          /\ steps[k].upto >= steps[k].at + 3
          /\ \E i, j \in (steps[k].at + 1)..(steps[k].upto - 1) :
                /\ Strip(src.lines[i]) = L_REM_PLAIN
                /\ Strip(src.lines[j]) = L_ECHO
          /\ k + 1 \in DOMAIN steps
    /\ \E k \in LoopSteps : StepLine(k) = L_FOR_BAL

\* C24: for every start value the caller supplies, every primary phase
\* number written in a `:STEP<n>` label by a phase-marker line is a multiple
\* of 10, and the phase counter is strictly increasing over the run: no
\* iteration lowers it and every phase-marker line raises it.
C24_PrimaryMultipleOf10 ==
    /\ \A k \in MarkerSteps :
          /\ <<":STEP", ToString(steps[k].phase)>> \in {out[i] : i \in steps[k].first..steps[k].last}
          /\ steps[k].phase % 10 = 0
          /\ steps[k].next > steps[k].phase
    /\ \A k \in DOMAIN steps : steps[k].next >= steps[k].phase
    /\ \A k \in DOMAIN steps : k > 1 => steps[k].phase = steps[k - 1].next

\* the numbers of the `goto STEP<n>` statements of the script, and of its
\* `:STEP<n>` labels
GotoTargets ==
    {out[i][4] : i \in {j \in DOMAIN out : Len(out[j]) = 4 /\ out[j][3] = " & goto STEP"}}
    \cup {out[i][2] : i \in {j \in DOMAIN out : /\ Len(out[j]) = 2
                                                 /\ out[j][1] = "if %errorlevel% EQU 0 goto STEP"}}
StepLabelsOfScript ==
    {out[i][2] : i \in {j \in DOMAIN out : Len(out[j]) = 2 /\ out[j][1] = ":STEP"}}

\* C25: in the script of a successful run every `goto STEP<n>` written by a
\* template has a label `:STEP<n>` in the same script, whatever the order
\* of the body lines, retry-scaffolded commands before the first phase
\* marker included.
C25_NoDanglingGoto ==
    (pc = "done" /\ result = "true") => GotoTargets \subseteq StepLabelsOfScript

\* the output lines that define a label `:STEP<n>` or `:finSTEP<n>`
LabelLines == {i \in DOMAIN out : Len(out[i]) = 2 /\ out[i][1] \in {":STEP", ":finSTEP"}}

\* C26: in the script of one run each label written by a template
\* (`:STEP<n>` of a phase marker, intermediate `:STEP<n>`, `:finSTEP<n>`)
\* is defined at most once, whatever the body lines, several
\* retry-scaffolded commands or several uniq pairs in one phase included.
C26_LabelsUnique ==
    \A i, j \in LabelLines : out[i] = out[j] => i = j

(***************************************************************************)
(* JobValidator.  The script is the sequence of its lines, a line the      *)
(* sequence of its fragments: a character copied from the source, or the   *)
(* text of a template.  A pattern is in the script when it is in a         *)
(* template, in a run of copied characters, or across the end of a         *)
(* template and the copied characters after it.                            *)
(***************************************************************************)
\* PATTERNS_OBLIGATOIRES: the patterns, without their messages
PATTERNS_OBLIGATOIRES ==
    << <<"@","e","c","h","o"," ","o","f","f">>,
       <<"s","e","t"," ","P","H","A","S","E","=","0","0">>,
       <<"s","e","t"," ","P","H","A","S","E","=","9","9">>,
       <<"s","k","l","_","d","e","b","u","t","j","o","b",".","p","l">>,
       <<"s","k","l","_","f","i","n","j","o","b",".","p","l">>,
       <<":","E","R","R","E","U","R">>,
       <<":","F","I","N">> >>

\* the templates of JobGenerator whose text holds the pattern
GabaritsAvec(p) ==
    CASE p = PATTERNS_OBLIGATOIRES[1] -> {"@echo off"}
      [] p = PATTERNS_OBLIGATOIRES[2] -> {"set PHASE=00 - Début du job"}
      [] p = PATTERNS_OBLIGATOIRES[3] -> {"set PHASE=99 - Fin du job"}
      [] p = PATTERNS_OBLIGATOIRES[4] -> {"%PERL% %PF_SKL_PROC%\\skl_debutjob.pl"}
      [] p = PATTERNS_OBLIGATOIRES[5] -> {"%PERL% %PF_SKL_PROC%\\skl_finjob.pl"}
      [] p = PATTERNS_OBLIGATOIRES[6] -> {":ERREUR"}
      [] p = PATTERNS_OBLIGATOIRES[7] -> {":FIN"}
      [] OTHER -> {}

\* the templates that end with the beginning of the pattern and are followed
\* by copied text, with the rest of the pattern
DebutsAvec(p) ==
    CASE p = PATTERNS_OBLIGATOIRES[2] -> {[gabarit |-> "set PHASE=", reste |-> <<"0","0">>]}
      [] p = PATTERNS_OBLIGATOIRES[3] -> {[gabarit |-> "set PHASE=", reste |-> <<"9","9">>]}
      [] OTHER -> {}

\* the copied characters of a line, each template replaced by a line feed
TexteCopie(l) == [n \in DOMAIN l |-> IF Len(l[n]) = 1 THEN l[n] ELSE "\n"]

\* pattern in the line
LigneContient(l, p) ==
    \/ \E n \in DOMAIN l : l[n] \in GabaritsAvec(p)
    \/ Contains(TexteCopie(l), p)
    \/ \E n \in DOMAIN l : \E d \in DebutsAvec(p) :
          /\ l[n] = d.gabarit
          /\ StartsWith(SubSeq(TexteCopie(l), n + 1, Len(l)), d.reste)

\* pattern in contenu
DansContenu(script, p) == \E i \in DOMAIN script : LigneContient(script[i], p)

\* JobValidator.valider: the value of resultats["valide"] for a script that
\* can be read
valider(script) ==
    \A n \in DOMAIN PATTERNS_OBLIGATOIRES : DansContenu(script, PATTERNS_OBLIGATOIRES[n])

\* C28: every script a successful run of generer produces is accepted by
\* JobValidator.valider (valide = True): it holds every marker of
\* PATTERNS_OBLIGATOIRES, for every job name, names that hold .cmd included.
C28_SuccessIsValid ==
    (pc = "done" /\ result = "true") => valider(out)

\* the primary labels written so far: the `:STEP<n>` lines of the output
\* that a phase-marker iteration wrote
PrimaryLabelLines ==
    {i \in DOMAIN out : /\ Len(out[i]) = 2
                        /\ out[i][1] = ":STEP"
                        /\ \E k \in MarkerSteps : /\ i \in steps[k].first..steps[k].last
                                                  /\ out[i][2] = ToString(steps[k].phase)}

\* C30: at every point of a generation run phase = start + 10 *
\* stats['phases_generees'], and stats['phases_generees'] is the number of
\* primary `:STEP<n>` labels written so far by phase-marker lines; both are
\* reset at the start of each run.
C30_PhaseStats ==
    pc \in {"body", "decode", "done"} =>
        /\ phase = ExpectedStart + 10 * stats.phases_generees
        /\ stats.phases_generees = Cardinality(PrimaryLabelLines)
        /\ steps = <<>> => (pc = "decode" \/ (phase = ExpectedStart /\ stats.phases_generees = 0))

(***************************************************************************)
(* FileTransferManager.  transfer_files handles its files one after the    *)
(* other through _process_single_file, which copies or generates the file  *)
(* into the local folder FM_path and, for a transfer, calls                *)
(* _effectuer_transfert.  What generer does on a file is the subject of    *)
(* the specifications above; here it returns True or False.  The server    *)
(* holds, per file, the file at the target path and the one at the target  *)
(* path with the date suffix.  A copy or a move can fail; a copy can leave *)
(* a file that is not the local one.                                       *)
(***************************************************************************)
MaxFichiers == 2

F_JOB == <<"j","o","b","/","a",".","b","a","t">>
F_SCRIPT == <<"b",".","c","m","d">>
F_APPLI == <<"p","a","r","a","m","/","a","_","a","p","p","l","i",".","b","a","t">>
F_DOC == <<"d","o","c","/","c",".","t","x","t">>

FichiersGit == {F_JOB, F_SCRIPT, F_APPLI, F_DOC}

\* os.path.basename(file), for a path written with "/"
Basename(file) ==
    LET p == Split(file, "/")
    IN  p[Len(p)]

\* needs_generation
needs_generation(nom_job) ==
    /\ \/ EndsWith(Lower(nom_job), <<".","b","a","t">>)
       \/ EndsWith(Lower(nom_job), <<".","c","m","d">>)
    /\ ~Contains(Lower(nom_job), <<"i","n","i","t","_","v","a","r">>)
    /\ ~Contains(Lower(nom_job), <<"_","a","p","p","l","i">>)

\* TransferResult
TransferResult(fichier, succes, message, dossier_destination) ==
    [fichier |-> fichier, succes |-> succes, message |-> message,
     dossier_destination |-> dossier_destination]

\* calculer_checksum: the digest of what the file holds
calculer_checksum(contenu) ==
    IF contenu = "absent" THEN <<"FICHIER_INTROUVABLE">> ELSE <<"md5", contenu>>

\* shutil.move(source_path, dest_path) when source_path exists
horodater(s) ==
    IF s.cible # "absent"
    THEN [cible |-> "absent", sauvegarde |-> s.cible]
    ELSE s

\* _rollback(dest_path, source_path); echec: its shutil.move raises
rollback(s, echec) ==
    IF s.sauvegarde # "absent" /\ ~echec
    THEN [cible |-> s.sauvegarde, sauvegarde |-> "absent"]
    ELSE s

\* what shutil.copy can leave at the target: the local file, a file that
\* differs from it, or, when it raises, nothing or a part of the file
Copies == {"nouveau", "altere", "rien", "partiel"}

\* _effectuer_transfert outside dry-run, on the server files s of the name:
\* the server files after it and its TransferResult.  deplace: the move to
\* the dated name succeeds; copie: what the copy leaves; echec: the move of
\* the rollback raises
effectuer_transfert(nom_job, dossier_dest, s, deplace, copie, echec) ==
    IF s.cible # "absent" /\ ~deplace
    THEN [s |-> s, r |-> TransferResult(nom_job, FALSE, "Erreur horodatage", dossier_dest)]
    ELSE LET h == horodater(s)
         IN  IF copie \in {"rien", "partiel"}
             THEN [s |-> rollback([h EXCEPT !.cible = IF copie = "rien" THEN @ ELSE "partiel"],
                                  echec),
                   r |-> TransferResult(nom_job, FALSE, "Erreur copie", dossier_dest)]
             ELSE LET c == [h EXCEPT !.cible = copie]
                      checksum_apres == calculer_checksum(c.cible)
                      checksum_local == calculer_checksum("nouveau")
                  IN  IF checksum_apres # checksum_local
                      THEN [s |-> rollback(c, echec),
                            r |-> TransferResult(nom_job, FALSE, "Intégrité compromise",
                                                 dossier_dest)]
                      ELSE [s |-> c,
                            r |-> TransferResult(nom_job, TRUE, "Transféré", dossier_dest)]

\* the files of the call, each once
ListesFichiers ==
    {l \in BoundedSeq(FichiersGit, MaxFichiers) : \A i, j \in DOMAIN l : l[i] = l[j] => i = j}

\* the server before the call: per name a previous version or none, and a
\* file with today's date suffix or none
Serveurs(l) ==
    [ {Basename(l[i]) : i \in DOMAIN l} ->
          [cible : {"absent", "ancien"}, sauvegarde : {"absent", "anterieur"}] ]

InitTransfert ==
    /\ InitGen({[exists |-> FALSE, lines |-> <<>>, bad |-> 0]},
               {[phase_depart |-> 0, date_jour |-> "", username |-> ""]})
    /\ ExecInit
    /\ autre = Absent
    /\ RouteInit
    /\ files \in ListesFichiers
    /\ transfert \in BOOLEAN
    /\ dry_run \in BOOLEAN
    /\ tpc = "absent"
    /\ results = <<>>
    /\ fm = {}
    /\ serveur \in Serveurs(files)
    /\ serveur0 = <<>>
    /\ transferes = {}

\* the file the loop of transfer_files is at
FichierCourant == files[Len(results) + 1]

\* transfer_files up to its loop
TransferFiles ==
    /\ tpc = "absent"
    /\ tpc' = "boucle"
    /\ results' = <<>>
    /\ UNCHANGED <<files, transfert, dry_run, fm, serveur, serveur0, transferes>>
    /\ UNCHANGED <<genVars, execVars, concVars, routeVars>>

\* _process_single_file on a file that is not generated: it is copied into
\* FM_path, and the method returns
ProcessCopieSimple ==
    /\ tpc = "boucle"
    /\ Len(results) < Len(files)
    /\ LET nom_job == Basename(FichierCourant)
           dossier_dest == determiner_dossier_serveur(nom_job, ReplaceBackslash(FichierCourant))
       IN  /\ ~needs_generation(nom_job)
           /\ \E copie \in BOOLEAN :
                 IF copie
                 THEN /\ fm' = fm \cup {nom_job}
                      /\ results' = Append(results,
                             TransferResult(nom_job, TRUE, "Copié sans génération", dossier_dest))
                 ELSE /\ fm' = fm
                      /\ results' = Append(results,
                             TransferResult(nom_job, FALSE, "Erreur copie", ""))
    /\ UNCHANGED <<files, transfert, dry_run, tpc, serveur, serveur0, transferes>>
    /\ UNCHANGED <<genVars, execVars, concVars, routeVars>>

\* _process_single_file on a file that is generated, up to the call of
\* _effectuer_transfert, or to the return when there is none
ProcessGeneration ==
    /\ tpc = "boucle"
    /\ Len(results) < Len(files)
    /\ LET nom_job == Basename(FichierCourant)
           dossier_dest == determiner_dossier_serveur(nom_job, ReplaceBackslash(FichierCourant))
       IN  /\ needs_generation(nom_job)
           /\ \E success \in BOOLEAN :
                 IF ~success
                 THEN /\ results' = Append(results,
                             TransferResult(nom_job, FALSE, "Échec génération", ""))
                      /\ UNCHANGED <<fm, tpc, serveur0, transferes>>
                 ELSE /\ fm' = fm \cup {nom_job}
                      /\ IF transfert
                         THEN /\ tpc' = "transfert"
                              /\ serveur0' = serveur
                              /\ transferes' = transferes \cup {nom_job}
                              /\ UNCHANGED results
                         ELSE /\ results' = Append(results,
                                     TransferResult(nom_job, TRUE, "Généré sans transfert",
                                                    dossier_dest))
                              /\ UNCHANGED <<tpc, serveur0, transferes>>
    /\ UNCHANGED <<files, transfert, dry_run, serveur>>
    /\ UNCHANGED <<genVars, execVars, concVars, routeVars>>

\* _effectuer_transfert, and the return of _process_single_file with its
\* result
EffectuerTransfert ==
    /\ tpc = "transfert"
    /\ LET nom_job == Basename(FichierCourant)
           dossier_dest == determiner_dossier_serveur(nom_job, ReplaceBackslash(FichierCourant))
       IN  IF dry_run
           THEN /\ results' = Append(results,
                       TransferResult(nom_job, TRUE, "DRY-RUN", dossier_dest))
                /\ UNCHANGED serveur
           ELSE \E deplace, echec \in BOOLEAN, copie \in Copies :
                   LET e == effectuer_transfert(nom_job, dossier_dest, serveur[nom_job],
                                                deplace, copie, echec)
                   IN  /\ serveur' = [serveur EXCEPT ![nom_job] = e.s]
                       /\ results' = Append(results, e.r)
    /\ tpc' = "boucle"
    /\ UNCHANGED <<files, transfert, dry_run, fm, serveur0, transferes>>
    /\ UNCHANGED <<genVars, execVars, concVars, routeVars>>

\* the loop is over: transfer_files returns self.results
RendreResultats ==
    /\ tpc = "boucle"
    /\ Len(results) = Len(files)
    /\ tpc' = "rendu"
    /\ UNCHANGED <<files, transfert, dry_run, results, fm, serveur, serveur0, transferes>>
    /\ UNCHANGED <<genVars, execVars, concVars, routeVars>>

NextTransfert ==
    \/ TransferFiles
    \/ ProcessCopieSimple
    \/ ProcessGeneration
    \/ EffectuerTransfert
    \/ RendreResultats

SpecTransfert == InitTransfert /\ [][NextTransfert]_vars

\* the results _effectuer_transfert returned for a failed transfer
EchecsTransfert ==
    {i \in DOMAIN results :
        /\ ~results[i].succes
        /\ results[i].fichier \in transferes
        /\ results[i].message \in {"Erreur horodatage", "Erreur copie", "Intégrité compromise"}}

\* C27: when _effectuer_transfert returns a failed TransferResult (error
\* while time-stamping the old file, error while copying, checksum mismatch
\* after the copy), the file at the server target path is what it was
\* before the call: the previous version under its name when there was
\* one, no file when there was none.
C27_FailedTransferRestores ==
    \A i \in EchecsTransfert :
        serveur[results[i].fichier].cible = serveur0[results[i].fichier].cible

\* C29: when transfer_files is called with transfert = True, every file for
\* which _process_single_file returns a successful TransferResult has gone
\* through _effectuer_transfert (copied to its server path, or reported as a
\* dry-run copy): none is reported as a success after being only copied or
\* generated locally.
C29_SuccessMeansTransferred ==
    transfert =>
        \A i \in DOMAIN results :
            results[i].succes =>
                /\ results[i].fichier \in transferes
                /\ results[i].message \in {"Transféré", "DRY-RUN"}
                /\ dry_run \/ serveur[results[i].fichier].cible = "nouveau"

=============================================================================
